---- MODULE Spec2Model ----
(***************************************************************************)
(* Interview session controller (InterviewSession component,               *)
(* src/unnamed/part_001): session start, countdown timer, integrity        *)
(* monitor, screen-recording pipeline with chunk upload, answer            *)
(* submission and the end-of-interview path.                               *)
(*                                                                         *)
(* One action is one browser task: an event handler or the continuation    *)
(* of an async function after an await, together with the React effects    *)
(* that the state changes of that task trigger.                            *)
(***************************************************************************)
EXTENDS Integers, Sequences, FiniteSets, TLC

\* ---------------------------------------------------------------- bounds
MaxDuration == 1        \* largest duration_minutes the backend supplies
MaxTabSwitches == 4     \* visibility-hidden transitions explored
MaxChunks == 2          \* dataavailable events explored
MaxEndCalls == 2        \* invocations of endInterviewManually explored
MaxStopCalls == 2       \* stopScreenRecording calls suspended at once
MaxRestarts == 1        \* restartScreenSharing invocations explored
MaxSubmits == 2         \* submitAnswer invocations that send a request
MaxTyping == 1          \* edits of the answer textarea explored
MaxMicPending == 2      \* startRecording calls waiting for the microphone
MaxMics == 2            \* microphone streams requested or held by recorders
MaxBlurs == 1           \* window blur events explored
MaxQuiet == 7           \* consecutive liveness checks without track activity

\* ------------------------------------------------------ program constants
SecondsPerMinute == 60
TabSwitchLimit == 3
SanityFloor == 1000
CheckPeriod == 5        \* seconds between two liveness checks
PauseLimit == 30        \* seconds without activity that count as a pause

Null == "null"           \* responseId before the session has started
NoTime == 0 - 1         \* timeRemaining === null: no countdown
RespId == "r1"          \* the response_id the backend issues
ServerIds == {"r1", "r2"}  \* response_ids the backend may answer the form with
ChunkSizes == {0, SanityFloor - 500, SanityFloor}
Durations == 0 .. MaxDuration
Texts == {<<>>, <<" ">>, <<"a">>}   \* answer text typed by the candidate

VARIABLES
  \* React state
  responseId, timeRemaining, interviewComplete, loading, error,
  transcript, partialTranscript, isRecording, currentQuestion,
  screenSharingStopped,
  \* refs
  timerIntervalRef, socket, tabSwitchCountRef, cheatingAlertsRef,
  screenRecorderRef, recorderGen, screenStreamRef, screenChunksRef,
  screenChunkIndexRef, mediaRecorderRef,
  \* suspended async functions and queued events
  startPc, existingTrack, acq, stops, pendingStop, graceTimers, pendingData,
  uploads, serverPending, endPostPending, detailPending, submits,
  fetchPending, micPending, answered,
  \* observations of what the program did
  durationMinutes, ticks, endInvocations, endPosts, endEmits, submitPosts,
  fetches, startEmits, diagnostics, chunkEvents, restarts, typed,
  lastSubmit,
  \* question audio: the Audio objects created, audioRef, questions fetched
  \* with audio; record-cheating-alert requests in flight
  audioRef, audios, spoken, alertPosts,
  \* the liveness-check interval of the screen pipeline, the consecutive
  \* checks in which the shared track showed no activity, teardown of the
  \* component, microphone streams of audio recorders whose tracks are live
  screenCheckIntervalRef, quiet, unmounted, micLive,
  \* the intake form: position of handleStart, start-interview requests
  \* sent in the attempt, the response_id the photo was uploaded under
  intakePc, startPosts, photoResponseId

reactVars == <<responseId, timeRemaining, interviewComplete, loading, error,
               transcript, partialTranscript, isRecording, currentQuestion,
               screenSharingStopped>>
refVars == <<timerIntervalRef, socket, tabSwitchCountRef, cheatingAlertsRef,
             screenRecorderRef, recorderGen, screenStreamRef, screenChunksRef,
             screenChunkIndexRef, mediaRecorderRef>>
procVars == <<startPc, existingTrack, acq, stops, pendingStop, graceTimers,
              pendingData, uploads, serverPending, endPostPending,
              detailPending, submits, fetchPending, micPending, answered>>
obsVars == <<durationMinutes, ticks, endInvocations, endPosts, endEmits,
             submitPosts, fetches, startEmits, diagnostics, chunkEvents,
             restarts, typed, lastSubmit>>
audioVars == <<audioRef, audios, spoken>>
deviceVars == <<screenCheckIntervalRef, quiet, unmounted, micLive>>
intakeVars == <<intakePc, startPosts, photoResponseId>>
vars == <<reactVars, refVars, procVars, obsVars, audioVars, alertPosts,
          deviceVars, intakeVars>>

\* ------------------------------------------------------------- helpers
SocketConnected == socket = "connected"

\* transcript.trim() is non-empty
Trimmed(t) == \E i \in 1 .. Len(t) : t[i] # " "

\* (prev ? prev + ' ' : '') + text
AppendSegment(prev, text) ==
  IF prev = <<>> THEN text ELSE prev \o <<" ">> \o text

RemoveAt(s, i) == [j \in 1 .. Len(s) - 1 |-> IF j < i THEN s[j] ELSE s[j + 1]]

\* recordCheatingAlert: push onto cheatingAlertsRef (the POST is detached)
RecordCheatingAlertMut(log, type) == <<type>>
RecordCheatingAlert(log, type) == Append(log, type)

\* recordCheatingAlert: if (responseId) fetch(record-cheating-alert), where
\* rid is the responseId of the closure; n counts the requests in flight
PostAlert(rid, n) == IF rid # Null THEN n + 1 ELSE n

\* Timer effect body: an interval exists exactly when the countdown runs
TimerRunsWhenComplete(tr, ic) == tr # NoTime /\ tr > 0
TimerRunsMut(tr, ic) == tr # NoTime /\ ~ic
TimerRuns(tr, ic) == tr # NoTime /\ tr > 0 /\ ~ic

\* startSession: duration_minutes && duration_minutes > 0 ? minutes*60 : null
InitialTimeMut(d) == d * SecondsPerMinute
InitialTime(d) == IF d > 0 THEN d * SecondsPerMinute ELSE NoTime

\* interval callback: prev === null || prev <= 1 ? 0 : prev - 1
TickValueMut(prev) == IF prev = NoTime \/ prev <= 2 THEN 0 ELSE prev - 1
TickValue(prev) == IF prev = NoTime \/ prev <= 1 THEN 0 ELSE prev - 1

\* handleVisibilityChange: tabSwitchCountRef.current >= 3
TabLimitReachedMut(n) == n > TabSwitchLimit
TabLimitReached(n) == n >= TabSwitchLimit

InitState(pc, form, posts, photo) ==
  /\ responseId = Null /\ timeRemaining = NoTime /\ interviewComplete = FALSE
  /\ loading = TRUE /\ error = "" /\ transcript = <<>>
  /\ partialTranscript = <<>> /\ isRecording = FALSE /\ currentQuestion = 0
  /\ screenSharingStopped = FALSE
  /\ timerIntervalRef = FALSE /\ socket = "none" /\ tabSwitchCountRef = 0
  /\ cheatingAlertsRef = <<>>
  /\ screenRecorderRef = "none" /\ recorderGen = 0 /\ screenStreamRef = "none"
  /\ screenChunksRef = <<>> /\ screenChunkIndexRef = 0
  /\ mediaRecorderRef = "none"
  /\ startPc = pc /\ existingTrack \in {"live", "ended"}
  /\ acq = [pc |-> "idle", caller |-> "none"] /\ stops = <<>> /\ pendingStop = {} /\ graceTimers = {}
  /\ pendingData = 0 /\ uploads = <<>> /\ serverPending = 0
  /\ endPostPending = 0 /\ detailPending = 0 /\ submits = <<>>
  /\ fetchPending = 0 /\ micPending = 0 /\ answered = 0
  /\ durationMinutes = NoTime /\ ticks = 0 /\ endInvocations = <<>>
  /\ endPosts = 0 /\ endEmits = 0 /\ submitPosts = 0 /\ fetches = 0
  /\ startEmits = 0 /\ diagnostics = 0 /\ chunkEvents = <<>> /\ restarts = 0
  /\ typed = 0
  /\ lastSubmit = [done |-> FALSE, emitted |-> FALSE, connected |-> FALSE]
  /\ audioRef = 0 /\ audios = <<>> /\ spoken = 0 /\ alertPosts = 0
  /\ screenCheckIntervalRef = FALSE /\ quiet = 0 /\ unmounted = FALSE
  /\ micLive = 0
  /\ intakePc = form /\ startPosts = posts /\ photoResponseId = photo

\* InterviewSession just mounted by the intake form: the form's request was
\* answered, the photo uploaded, and the request of startSession is in flight.
Init == InitState("post", "started", 2, RespId)

\* The intake form with photo captured and screen permission granted.
InitIntake == InitState("form", "form", 0, Null)

\* ------------------------------------------------------------ intake form
intakeFrame == <<reactVars, refVars, existingTrack, acq, stops, pendingStop,
                 graceTimers, pendingData, uploads, serverPending,
                 endPostPending, detailPending, submits, fetchPending,
                 micPending, answered, obsVars, audioVars, alertPosts,
                 deviceVars>>

\* handleStart up to its first await: POST start-interview
HandleStart ==
  /\ intakePc = "form"
  /\ intakePc' = "post"
  /\ startPosts' = 1
  /\ photoResponseId' = Null
  /\ UNCHANGED <<intakeFrame, startPc>>

\* The form's request settles: on failure the error is shown and the form
\* stays; otherwise the photo is uploaded under data.response_id.
IntakeResponse(ok, id) ==
  /\ intakePc = "post"
  /\ IF ok
     THEN intakePc' = "upload" /\ photoResponseId' = id
     ELSE intakePc' = "form" /\ UNCHANGED photoResponseId
  /\ UNCHANGED <<intakeFrame, startPc, startPosts>>

\* The photo upload settles (either way): setStarted(true) mounts
\* InterviewSession, whose startSession effect runs up to its first await,
\* POST start-interview.
IntakeStarted ==
  /\ intakePc = "upload"
  /\ intakePc' = "started"
  /\ startPc' = "post"
  /\ startPosts' = startPosts + 1
  /\ UNCHANGED <<intakeFrame, photoResponseId>>

\* ------------------------------------------------- screen pipeline: stop
stopCore == <<pendingData, stops, screenStreamRef>>
endCore == <<endEmits, endPosts, endPostPending>>

\* State of the recorder a suspended stopScreenRecording call holds
RecorderState(g) == IF g = recorderGen THEN screenRecorderRef ELSE "inactive"

\* endInterviewManually after its await of stopScreenRecording, for k calls
\* resumed by the same task: emit end_interview, POST end-interview
EndContinue(k) ==
  /\ endEmits' = endEmits + (IF socket # "none" THEN k ELSE 0)
  /\ endPosts' = endPosts + k
  /\ endPostPending' = endPostPending + k

\* stopScreenRecording up to its first await
StopScreenRecording(forEnd, stream) ==
  IF screenRecorderRef = "recording"
  THEN /\ Len(stops) < MaxStopCalls
       /\ pendingData' = pendingData + 1            \* recorder.requestData()
       /\ stops' = Append(stops, [pc |-> "flush", gen |-> recorderGen,
                                  forEnd |-> forEnd])
       /\ screenStreamRef' = stream
  ELSE /\ screenStreamRef' = "none"                 \* tracks stopped, ref cleared
       /\ UNCHANGED <<pendingData, stops>>

\* endInterviewManually up to its first await. rid and ic are the responseId
\* and interviewComplete of the render whose closure is called.
endStartVars == <<timerIntervalRef, loading, endInvocations, stopCore, endCore>>
EndGuardNoId(rid, ic) == ~ic
EndGuardMut(rid, ic) == rid # Null
EndGuard(rid, ic) == rid # Null /\ ~ic
EndInterviewManually(src, rid, ic) ==
  IF ~EndGuard(rid, ic)
  THEN UNCHANGED endStartVars
  ELSE /\ Len(endInvocations) < MaxEndCalls
       /\ endInvocations' = Append(endInvocations, src)
       /\ timerIntervalRef' = FALSE
       /\ loading' = TRUE
       /\ IF screenRecorderRef # "none"
          THEN /\ StopScreenRecording(TRUE, screenStreamRef)
               /\ IF screenRecorderRef = "recording"
                  THEN UNCHANGED endCore
                  ELSE EndContinue(1)
          ELSE /\ UNCHANGED stopCore
               /\ EndContinue(1)

\* Completion effect, when interviewComplete turns true in this step with a
\* responseId and a recorder in screenRecorderRef: clearInterval
CheckIntervalAfter(completes) ==
  IF completes /\ responseId # Null /\ screenRecorderRef # "none"
  THEN FALSE ELSE screenCheckIntervalRef

\* mediaRecorder.onstop of an audio recorder stopped in this step: the
\* tracks of its microphone stream are stopped
MicAfterStopMut == micLive
MicAfterStop ==
  IF mediaRecorderRef = "recording" /\ mediaRecorderRef' # "recording"
  THEN micLive - 1 ELSE micLive

\* Effects that run when interviewComplete turns true: the timer effect
\* clears the interval, the completion effect stops the screen pipeline.
CompleteEffects ==
  /\ timerIntervalRef' = TimerRuns(timeRemaining, TRUE)
  /\ IF ~interviewComplete /\ responseId # Null /\ screenRecorderRef # "none"
     THEN StopScreenRecording(FALSE, screenStreamRef)
     ELSE UNCHANGED stopCore

\* stopScreenRecording resumes after its 500 ms wait: install the onstop
\* wrapper and call recorder.stop(). On a recorder that is already inactive
\* stop() either throws (caught, the call returns) or does nothing. The waits
\* are timers of one length, so they end in the order they were started.
StopFlushDone(i, throws) ==
  /\ i \in 1 .. Len(stops) /\ stops[i].pc = "flush"
  /\ \A j \in 1 .. i - 1 : stops[j].pc # "flush"
  /\ LET g == stops[i].gen IN
     IF RecorderState(g) = "recording"
     THEN /\ throws = FALSE
          /\ screenRecorderRef' = "inactive"
          /\ pendingData' = pendingData + 1         \* final dataavailable
          /\ pendingStop' = pendingStop \cup {g}
          /\ stops' = [stops EXCEPT ![i].pc = "stopwait"]
          /\ UNCHANGED endCore
     ELSE /\ UNCHANGED <<screenRecorderRef, pendingData, pendingStop>>
          /\ IF throws
             THEN /\ stops' = RemoveAt(stops, i)
                  /\ IF stops[i].forEnd THEN EndContinue(1)
                     ELSE UNCHANGED endCore
             ELSE /\ stops' = [stops EXCEPT ![i].pc =
                                 IF g \in pendingStop THEN "stopwait" ELSE "hung"]
                  /\ UNCHANGED endCore
  /\ UNCHANGED <<reactVars, timerIntervalRef, socket, tabSwitchCountRef,
                 cheatingAlertsRef, recorderGen, screenStreamRef,
                 screenChunksRef, screenChunkIndexRef, mediaRecorderRef>>
  /\ UNCHANGED <<startPc, existingTrack, acq, graceTimers, uploads,
                 serverPending, detailPending, submits, fetchPending,
                 micPending, answered>>
  /\ UNCHANGED <<durationMinutes, ticks, endInvocations, submitPosts, fetches,
                 startEmits, diagnostics, chunkEvents, restarts, typed,
                 lastSubmit>>
  /\ UNCHANGED <<audioVars, alertPosts>>
  /\ UNCHANGED deviceVars
  /\ UNCHANGED intakeVars

\* The recorder's stop event: the onstop chain runs down to the original
\* handler, which starts its 5 s wait.
RecorderStopEvent(g) ==
  /\ g \in pendingStop
  /\ pendingStop' = pendingStop \ {g}
  /\ graceTimers' = graceTimers \cup {g}
  /\ stops' = [i \in 1 .. Len(stops) |->
                 IF stops[i].gen = g /\ stops[i].pc = "stopwait"
                 THEN [stops[i] EXCEPT !.pc = "grace"] ELSE stops[i]]
  /\ UNCHANGED <<reactVars, refVars, obsVars>>
  /\ UNCHANGED <<startPc, existingTrack, acq, pendingData, uploads,
                 serverPending, endPostPending, detailPending, submits,
                 fetchPending, micPending, answered>>
  /\ UNCHANGED <<audioVars, alertPosts>>
  /\ UNCHANGED deviceVars
  /\ UNCHANGED intakeVars

\* The 5 s wait of the original onstop handler ends: every stopScreenRecording
\* call chained on it resumes, stops the tracks of the current stream and
\* clears the ref; the end calls among them go on to emit and POST.
Keep(s, P(_)) ==
  LET F[i \in 0 .. Len(s)] ==
        IF i = 0 THEN <<>>
        ELSE IF P(s[i]) THEN Append(F[i - 1], s[i]) ELSE F[i - 1]
  IN F[Len(s)]
GraceDone(g) ==
  /\ g \in graceTimers
  /\ graceTimers' = graceTimers \ {g}
  /\ LET Done(r) == r.gen = g /\ r.pc = "grace"
         Stay(r) == ~Done(r)
         resumed == Keep(stops, Done)
         ends == Len(Keep(resumed, LAMBDA r : r.forEnd))
     IN /\ stops' = Keep(stops, Stay)
        /\ screenStreamRef' = IF resumed = <<>> THEN screenStreamRef ELSE "none"
        /\ EndContinue(ends)
  /\ UNCHANGED <<reactVars, timerIntervalRef, socket, tabSwitchCountRef,
                 cheatingAlertsRef, screenRecorderRef, recorderGen,
                 screenChunksRef, screenChunkIndexRef, mediaRecorderRef>>
  /\ UNCHANGED <<startPc, existingTrack, acq, pendingStop, pendingData,
                 uploads, serverPending, detailPending, submits, fetchPending,
                 micPending, answered>>
  /\ UNCHANGED <<durationMinutes, ticks, endInvocations, submitPosts, fetches,
                 startEmits, diagnostics, chunkEvents, restarts, typed,
                 lastSubmit>>
  /\ UNCHANGED <<audioVars, alertPosts>>
  /\ UNCHANGED deviceVars
  /\ UNCHANGED intakeVars

\* ------------------------------------------------------- end-interview
\* Response of POST end-interview. ok: setInterviewComplete(true), then GET
\* get-response; otherwise the catch sets the error and finally clears loading.
EndResponse(ok) ==
  /\ endPostPending > 0
  /\ endPostPending' = endPostPending - 1
  /\ IF ok
     THEN /\ interviewComplete' = TRUE
          /\ CompleteEffects
          /\ detailPending' = detailPending + 1
          /\ UNCHANGED <<error, loading>>
     ELSE /\ error' = "end_failed"
          /\ loading' = FALSE
          /\ UNCHANGED <<interviewComplete, timerIntervalRef, stopCore,
                         detailPending>>
  /\ UNCHANGED <<responseId, timeRemaining, transcript, partialTranscript,
                 isRecording, currentQuestion, screenSharingStopped>>
  /\ UNCHANGED <<socket, tabSwitchCountRef, cheatingAlertsRef,
                 screenRecorderRef, recorderGen, screenChunksRef,
                 screenChunkIndexRef, mediaRecorderRef>>
  /\ UNCHANGED <<startPc, existingTrack, acq, pendingStop, graceTimers,
                 uploads, serverPending, submits, fetchPending, micPending, answered>>
  /\ UNCHANGED <<durationMinutes, ticks, endInvocations, endPosts, endEmits,
                 submitPosts, fetches, startEmits, diagnostics, chunkEvents,
                 restarts, typed, lastSubmit>>
  /\ UNCHANGED <<audioVars, alertPosts>>
  /\ screenCheckIntervalRef' =
       CheckIntervalAfter(~interviewComplete /\ interviewComplete')
  /\ UNCHANGED <<quiet, unmounted, micLive>>
  /\ UNCHANGED intakeVars

\* Response of GET get-response (any outcome): finally clears loading
DetailResponse ==
  /\ detailPending > 0
  /\ detailPending' = detailPending - 1
  /\ loading' = FALSE
  /\ UNCHANGED <<responseId, timeRemaining, interviewComplete, error,
                 transcript, partialTranscript, isRecording, currentQuestion,
                 screenSharingStopped>>
  /\ UNCHANGED <<refVars, obsVars>>
  /\ UNCHANGED <<startPc, existingTrack, acq, stops, pendingStop, graceTimers,
                 pendingData, uploads, serverPending, endPostPending, submits,
                 fetchPending, micPending, answered>>
  /\ UNCHANGED <<audioVars, alertPosts>>
  /\ UNCHANGED deviceVars
  /\ UNCHANGED intakeVars

\* The End Interview button (disabled while loading)
EndButton ==
  /\ ~unmounted
  /\ ~interviewComplete /\ ~loading
  /\ EndInterviewManually("button", responseId, interviewComplete)
  /\ UNCHANGED <<responseId, timeRemaining, interviewComplete, error,
                 transcript, partialTranscript, isRecording, currentQuestion,
                 screenSharingStopped>>
  /\ UNCHANGED <<socket, tabSwitchCountRef, cheatingAlertsRef,
                 screenRecorderRef, recorderGen, screenChunksRef,
                 screenChunkIndexRef, mediaRecorderRef>>
  /\ UNCHANGED <<startPc, existingTrack, acq, pendingStop, graceTimers,
                 uploads, serverPending, detailPending, submits, fetchPending,
                 micPending, answered>>
  /\ UNCHANGED <<durationMinutes, ticks, submitPosts, fetches, startEmits,
                 diagnostics, chunkEvents, restarts, typed, lastSubmit>>
  /\ UNCHANGED <<audioVars, alertPosts>>
  /\ UNCHANGED deviceVars
  /\ UNCHANGED intakeVars

\* ----------------------------------------------------------- countdown
\* One firing of the interval callback, followed by the timer effect for
\* the new timeRemaining: a new interval, or at 0 the automatic end.
Tick ==
  /\ ~unmounted
  /\ timerIntervalRef
  /\ timeRemaining' = TickValue(timeRemaining)
  /\ ticks' = ticks + 1
  /\ IF timeRemaining' = timeRemaining
     THEN UNCHANGED endStartVars
     ELSE IF timeRemaining' = 0
          THEN EndInterviewManually("timer", responseId, interviewComplete)
          ELSE /\ timerIntervalRef' = TimerRuns(timeRemaining', interviewComplete)
               /\ UNCHANGED <<loading, endInvocations, stopCore, endCore>>
  /\ UNCHANGED <<responseId, interviewComplete, error, transcript,
                 partialTranscript, isRecording, currentQuestion,
                 screenSharingStopped>>
  /\ UNCHANGED <<socket, tabSwitchCountRef, cheatingAlertsRef,
                 screenRecorderRef, recorderGen, screenChunksRef,
                 screenChunkIndexRef, mediaRecorderRef>>
  /\ UNCHANGED <<startPc, existingTrack, acq, pendingStop, graceTimers,
                 uploads, serverPending, detailPending, submits, fetchPending,
                 micPending, answered>>
  /\ UNCHANGED <<durationMinutes, submitPosts, fetches, startEmits,
                 diagnostics, chunkEvents, restarts, typed, lastSubmit>>
  /\ UNCHANGED <<audioVars, alertPosts>>
  /\ UNCHANGED deviceVars
  /\ UNCHANGED intakeVars

\* ---------------------------------------------------- integrity monitor
\* Listeners are attached while a responseId exists and the session is not
\* complete.
MonitorActiveMut == responseId # Null
MonitorActive == responseId # Null /\ ~interviewComplete

\* visibilitychange with document.hidden
VisibilityHidden ==
  /\ ~unmounted
  /\ MonitorActive
  /\ tabSwitchCountRef < MaxTabSwitches
  /\ tabSwitchCountRef' = tabSwitchCountRef + 1
  /\ cheatingAlertsRef' = RecordCheatingAlert(cheatingAlertsRef, "tab_switch")
  /\ IF TabLimitReached(tabSwitchCountRef')
     THEN /\ error' = "terminated"
          /\ EndInterviewManually("tab", responseId, interviewComplete)
     ELSE /\ error' = "tab_warning"
          /\ UNCHANGED endStartVars
  /\ UNCHANGED <<responseId, timeRemaining, interviewComplete, transcript,
                 partialTranscript, isRecording, currentQuestion,
                 screenSharingStopped>>
  /\ UNCHANGED <<socket, screenRecorderRef, recorderGen, screenChunksRef,
                 screenChunkIndexRef, mediaRecorderRef>>
  /\ UNCHANGED <<startPc, existingTrack, acq, pendingStop, graceTimers,
                 uploads, serverPending, detailPending, submits, fetchPending,
                 micPending, answered>>
  /\ UNCHANGED <<durationMinutes, ticks, submitPosts, fetches, startEmits,
                 diagnostics, chunkEvents, restarts, typed, lastSubmit>>
  /\ alertPosts' = PostAlert(responseId, alertPosts)
  /\ UNCHANGED audioVars
  /\ UNCHANGED deviceVars
  /\ UNCHANGED intakeVars

\* blur of the window: handleBlur
Blurs == Cardinality({k \in 1 .. Len(cheatingAlertsRef) :
                       cheatingAlertsRef[k] = "window_blur"})
WindowBlur ==
  /\ ~unmounted
  /\ MonitorActive
  /\ Blurs < MaxBlurs
  /\ cheatingAlertsRef' = RecordCheatingAlert(cheatingAlertsRef, "window_blur")
  /\ alertPosts' = PostAlert(responseId, alertPosts)
  /\ UNCHANGED <<reactVars, timerIntervalRef, socket, tabSwitchCountRef,
                 screenRecorderRef, recorderGen, screenStreamRef,
                 screenChunksRef, screenChunkIndexRef, mediaRecorderRef>>
  /\ UNCHANGED <<procVars, obsVars, audioVars>>
  /\ UNCHANGED deviceVars
  /\ UNCHANGED intakeVars

\* The detached record-cheating-alert request settles; a rejection is
\* caught and only logged
AlertFailureMut(err) == "alert_failed"
AlertFailure(err) == err
AlertResponse(ok) ==
  /\ alertPosts > 0
  /\ alertPosts' = alertPosts - 1
  /\ error' = IF ok THEN error ELSE AlertFailure(error)
  /\ UNCHANGED <<responseId, timeRemaining, interviewComplete, loading,
                 transcript, partialTranscript, isRecording, currentQuestion,
                 screenSharingStopped>>
  /\ UNCHANGED <<refVars, procVars, obsVars, audioVars>>
  /\ UNCHANGED deviceVars
  /\ UNCHANGED intakeVars

\* The callback of the liveness-check interval (every CheckPeriod seconds).
\* active: the shared track showed activity since the previous check. With
\* a live track the callback sets lastScreenActivityRef to Date.now() and
\* then compares Date.now() with it. The interviewComplete it tests is the
\* one of the render that started the pipeline, which is false.
TimeSinceActivity == 0
PauseDetected(t) == t > PauseLimit
ActivityCheck(active) ==
  /\ screenCheckIntervalRef
  /\ quiet < MaxQuiet
  /\ IF screenStreamRef = "none"
     THEN /\ screenCheckIntervalRef' = FALSE
          /\ UNCHANGED <<cheatingAlertsRef, alertPosts, quiet>>
     ELSE /\ UNCHANGED screenCheckIntervalRef
          /\ quiet' = IF active /\ screenStreamRef = "live" THEN 0
                      ELSE quiet + 1
          /\ LET type == IF screenStreamRef = "ended"
                         THEN "screen_track_inactive"
                         ELSE IF PauseDetected(TimeSinceActivity)
                              THEN "screen_pause" ELSE "none"
                 rid == IF restarts > 0 THEN responseId ELSE Null
             IN IF type = "none"
                THEN UNCHANGED <<cheatingAlertsRef, alertPosts>>
                ELSE /\ cheatingAlertsRef' =
                          RecordCheatingAlert(cheatingAlertsRef, type)
                     /\ alertPosts' = PostAlert(rid, alertPosts)
  /\ UNCHANGED <<reactVars, timerIntervalRef, socket, tabSwitchCountRef,
                 screenRecorderRef, recorderGen, screenStreamRef,
                 screenChunksRef, screenChunkIndexRef, mediaRecorderRef>>
  /\ UNCHANGED <<procVars, obsVars, audioVars, unmounted, micLive>>
  /\ UNCHANGED intakeVars

\* Cleanup of the startSession effect when the component unmounts: the
\* timer is cleared, the socket disconnected, the screen recorder stopped
\* and the tracks of the screen stream stopped. The cameraPreviewStream it
\* tests is the one of the first render, which is null.
Unmount ==
  /\ ~unmounted
  /\ unmounted' = TRUE
  /\ timerIntervalRef' = FALSE
  /\ socket' = IF socket = "none" THEN "none" ELSE "disconnected"
  /\ IF screenRecorderRef = "recording"
     THEN /\ screenRecorderRef' = "inactive"
          /\ pendingData' = pendingData + 1
          /\ pendingStop' = pendingStop \cup {recorderGen}
     ELSE UNCHANGED <<screenRecorderRef, pendingData, pendingStop>>
  /\ screenStreamRef' = "none"
  /\ UNCHANGED <<reactVars, tabSwitchCountRef, cheatingAlertsRef, recorderGen,
                 screenChunksRef, screenChunkIndexRef, mediaRecorderRef>>
  /\ UNCHANGED <<startPc, existingTrack, acq, stops, graceTimers, uploads,
                 serverPending, endPostPending, detailPending, submits,
                 fetchPending, micPending, answered>>
  /\ UNCHANGED <<obsVars, audioVars, alertPosts, screenCheckIntervalRef,
                 quiet, micLive>>
  /\ UNCHANGED intakeVars

\* --------------------------------------------------------- session start
\* Response of POST start-interview. ok: responseId and timeRemaining are
\* set, the socket is created, the first question fetch is issued and the
\* camera preview is requested. The timer effect runs for the new state.
StartResponse(ok, d) ==
  /\ ~unmounted
  /\ startPc = "post"
  /\ IF ok
     THEN /\ responseId' = RespId
          /\ durationMinutes' = d
          /\ timeRemaining' = InitialTime(d)
          /\ socket' = "disconnected"
          /\ fetches' = fetches + 1
          /\ fetchPending' = fetchPending + 1
          /\ startPc' = "camera"
          /\ UNCHANGED error
          /\ IF timeRemaining' = 0
             THEN EndInterviewManually("timer", responseId', interviewComplete)
             ELSE /\ timerIntervalRef' = TimerRuns(timeRemaining', interviewComplete)
                  /\ UNCHANGED <<loading, endInvocations, stopCore, endCore>>
     ELSE /\ d = 0
          /\ error' = "start_failed"
          /\ loading' = FALSE
          /\ startPc' = "failed"
          /\ UNCHANGED <<responseId, durationMinutes, timeRemaining, socket,
                         fetches, fetchPending, timerIntervalRef,
                         endInvocations, stopCore, endCore>>
  /\ UNCHANGED <<interviewComplete, transcript, partialTranscript,
                 isRecording, currentQuestion, screenSharingStopped>>
  /\ UNCHANGED <<tabSwitchCountRef, cheatingAlertsRef, screenRecorderRef,
                 recorderGen, screenChunksRef, screenChunkIndexRef,
                 mediaRecorderRef>>
  /\ UNCHANGED <<existingTrack, acq, pendingStop, graceTimers, uploads,
                 serverPending, detailPending, submits, micPending, answered>>
  /\ UNCHANGED <<ticks, submitPosts, startEmits, diagnostics, chunkEvents,
                 restarts, typed, lastSubmit>>
  /\ UNCHANGED <<audioVars, alertPosts>>
  /\ UNCHANGED deviceVars
  /\ UNCHANGED intakeVars

\* The camera preview request of startSession settles (either way), then
\* startScreenRecording(existingScreenStream) runs up to its first await:
\* the stream handed over by the intake form is used unless its track ended.
CameraDone ==
  /\ ~unmounted
  /\ startPc = "camera"
  /\ startPc' = "screen"
  /\ acq' = [pc |-> IF existingTrack = "ended" THEN "display" ELSE "mic",
             caller |-> "start"]
  /\ UNCHANGED <<reactVars, refVars, obsVars>>
  /\ UNCHANGED <<existingTrack, stops, pendingStop, graceTimers, pendingData,
                 uploads, serverPending, endPostPending, detailPending,
                 submits, fetchPending, micPending, answered>>
  /\ UNCHANGED <<audioVars, alertPosts>>
  /\ UNCHANGED deviceVars
  /\ UNCHANGED intakeVars

\* startScreenRecording returns or throws to its caller: startSession logs a
\* validation failure and shows any other, then clears loading;
\* restartScreenSharing clears the blocked flag on return, shows the error
\* on throw.
acqCallerVars == <<startPc, loading, error, screenSharingStopped>>
AcqReturnsMut(caller, outcome) ==
  IF caller = "start"
  THEN /\ startPc' = "done"
       /\ loading' = FALSE
       /\ error' = IF outcome # "ok" THEN "screen_failed" ELSE error
       /\ UNCHANGED screenSharingStopped
  ELSE /\ screenSharingStopped' = IF outcome = "ok" THEN FALSE
                                  ELSE screenSharingStopped
       /\ error' = IF outcome = "ok" THEN error ELSE "screen_failed"
       /\ UNCHANGED <<startPc, loading>>
AcqReturns(caller, outcome) ==
  IF caller = "start"
  THEN /\ startPc' = "done"
       /\ loading' = FALSE
       /\ error' = IF outcome = "error" THEN "screen_failed" ELSE error
       /\ UNCHANGED screenSharingStopped
  ELSE /\ screenSharingStopped' = IF outcome = "ok" THEN FALSE
                                  ELSE screenSharingStopped
       /\ error' = IF outcome = "ok" THEN error ELSE "screen_failed"
       /\ UNCHANGED <<startPc, loading>>

\* getDisplayMedia settles: accepted (monitor or unknown surface), rejected
\* as a window/tab share (validation error), or denied by the user.
DisplayResult(outcome) ==
  /\ acq.pc = "display"
  /\ IF outcome = "ok"
     THEN /\ acq' = [acq EXCEPT !.pc = "mic"]
          /\ UNCHANGED acqCallerVars
     ELSE /\ acq' = [pc |-> "idle", caller |-> "none"]
          /\ AcqReturns(acq.caller,
                        IF outcome = "window" THEN "validation" ELSE "error")
  /\ UNCHANGED <<responseId, timeRemaining, interviewComplete, transcript,
                 partialTranscript, isRecording, currentQuestion>>
  /\ UNCHANGED <<refVars, obsVars>>
  /\ UNCHANGED <<existingTrack, stops, pendingStop, graceTimers, pendingData,
                 uploads, serverPending, endPostPending, detailPending,
                 submits, fetchPending, micPending, answered>>
  /\ UNCHANGED <<audioVars, alertPosts>>
  /\ UNCHANGED deviceVars
  /\ UNCHANGED intakeVars

\* The microphone request of startScreenRecording settles (mixed in or not):
\* the stream is stored; with a live video track the onended handler is set
\* and a new recorder is created and started, with an ended one it throws.
MicResult(track) ==
  /\ acq.pc = "mic"
  /\ acq' = [pc |-> "idle", caller |-> "none"]
  /\ screenStreamRef' = track
  /\ IF track = "live"
     THEN /\ screenRecorderRef' = "recording"
          /\ recorderGen' = recorderGen + 1
          /\ screenChunksRef' = <<>>
          /\ screenChunkIndexRef' = 0
          /\ AcqReturns(acq.caller, "ok")
     ELSE /\ UNCHANGED <<screenRecorderRef, recorderGen, screenChunksRef,
                         screenChunkIndexRef>>
          /\ AcqReturns(acq.caller, "error")
  /\ UNCHANGED <<responseId, timeRemaining, interviewComplete, transcript,
                 partialTranscript, isRecording, currentQuestion>>
  /\ UNCHANGED <<timerIntervalRef, socket, tabSwitchCountRef,
                 cheatingAlertsRef, mediaRecorderRef>>
  /\ UNCHANGED <<existingTrack, stops, pendingStop, graceTimers, pendingData,
                 uploads, serverPending, endPostPending, detailPending,
                 submits, fetchPending, micPending, answered>>
  /\ UNCHANGED obsVars
  /\ UNCHANGED <<audioVars, alertPosts>>
  /\ screenCheckIntervalRef' = (track = "live" \/ screenCheckIntervalRef)
  /\ UNCHANGED <<quiet, unmounted, micLive>>
  /\ UNCHANGED intakeVars

\* videoTrack.onended: the user stopped sharing through the browser
TrackEnded ==
  /\ screenStreamRef = "live"
  /\ cheatingAlertsRef' =
       RecordCheatingAlert(cheatingAlertsRef, "screen_sharing_stopped")
  /\ screenSharingStopped' = TRUE
  /\ StopScreenRecording(FALSE, "ended")
  /\ error' = "screen_stopped"
  /\ UNCHANGED <<responseId, timeRemaining, interviewComplete, loading,
                 transcript, partialTranscript, isRecording, currentQuestion>>
  /\ UNCHANGED <<timerIntervalRef, socket, tabSwitchCountRef,
                 screenRecorderRef, recorderGen, screenChunksRef,
                 screenChunkIndexRef, mediaRecorderRef>>
  /\ UNCHANGED <<startPc, existingTrack, acq, pendingStop, graceTimers,
                 uploads, serverPending, endPostPending, detailPending,
                 submits, fetchPending, micPending, answered>>
  /\ UNCHANGED obsVars
  /\ UNCHANGED <<audioVars, alertPosts>>
  /\ UNCHANGED deviceVars
  /\ UNCHANGED intakeVars

\* The Restart Screen Sharing button (shown while screenSharingStopped):
\* startScreenRecording(responseId, null) returns at once when a recorder is
\* still active, otherwise it asks for a new display stream.
RestartScreenSharing ==
  /\ ~unmounted
  /\ screenSharingStopped /\ ~interviewComplete
  /\ responseId # Null
  /\ restarts < MaxRestarts
  /\ acq.pc = "idle"
  /\ restarts' = restarts + 1
  /\ IF screenRecorderRef = "recording"
     THEN /\ screenSharingStopped' = FALSE
          /\ UNCHANGED acq
     ELSE /\ acq' = [pc |-> "display", caller |-> "restart"]
          /\ UNCHANGED screenSharingStopped
  /\ error' = ""
  /\ UNCHANGED <<responseId, timeRemaining, interviewComplete, loading,
                 transcript, partialTranscript, isRecording, currentQuestion>>
  /\ UNCHANGED refVars
  /\ UNCHANGED <<startPc, existingTrack, stops, pendingStop, graceTimers,
                 pendingData, uploads, serverPending, endPostPending,
                 detailPending, submits, fetchPending, micPending, answered>>
  /\ UNCHANGED <<durationMinutes, ticks, endInvocations, endPosts, endEmits,
                 submitPosts, fetches, startEmits, diagnostics, chunkEvents,
                 typed, lastSubmit>>
  /\ UNCHANGED <<audioVars, alertPosts>>
  /\ UNCHANGED deviceVars
  /\ UNCHANGED intakeVars

\* ------------------------------------------- screen pipeline: chunk upload
ChunksSeen == Len(chunkEvents)

\* chunkIndex read in ondataavailable
ChunkIndexReadMut(counter, seen) == seen
ChunkIndexRead(counter, seen) == counter

\* e.data && e.data.size > 0
ChunkAcceptedMut(size) == size >= SanityFloor
ChunkAccepted(size) == size > 0

\* e.data.size < 1000: the diagnostic console.error lines
ChunkSuspiciousMut(size) == FALSE
ChunkSuspicious(size) == size < SanityFloor

\* ondataavailable up to its first await (the FileReader): a timeslice chunk
\* of an active recorder, or a chunk queued by requestData() / stop().
DataAvailable(size) ==
  /\ screenRecorderRef = "recording" \/ pendingData > 0
  /\ ChunksSeen < MaxChunks
  /\ pendingData' = IF pendingData > 0 THEN pendingData - 1 ELSE 0
  /\ chunkEvents' = Append(chunkEvents, size)
  /\ IF ChunkAccepted(size)
     THEN /\ diagnostics' = diagnostics + (IF ChunkSuspicious(size) THEN 1 ELSE 0)
          /\ screenChunksRef' = Append(screenChunksRef, size)
          /\ uploads' = Append(uploads,
               [gen |-> recorderGen, size |-> size,
                idx |-> ChunkIndexRead(screenChunkIndexRef, Len(screenChunksRef)),
                pc |-> "encode", why |-> "none"])
     ELSE UNCHANGED <<diagnostics, screenChunksRef, uploads>>
  /\ UNCHANGED reactVars
  /\ UNCHANGED <<timerIntervalRef, socket, tabSwitchCountRef,
                 cheatingAlertsRef, screenRecorderRef, recorderGen,
                 screenStreamRef, screenChunkIndexRef, mediaRecorderRef>>
  /\ UNCHANGED <<startPc, existingTrack, acq, stops, pendingStop, graceTimers,
                 serverPending, endPostPending, detailPending, submits,
                 fetchPending, micPending, answered>>
  /\ UNCHANGED <<durationMinutes, ticks, endInvocations, endPosts, endEmits,
                 submitPosts, fetches, startEmits, restarts, typed, lastSubmit>>
  /\ UNCHANGED <<audioVars, alertPosts>>
  /\ UNCHANGED deviceVars
  /\ UNCHANGED intakeVars

uploadFrame == <<responseId, timeRemaining, interviewComplete, loading,
                 transcript, partialTranscript, isRecording, currentQuestion,
                 timerIntervalRef, socket, tabSwitchCountRef,
                 cheatingAlertsRef, recorderGen, screenStreamRef,
                 screenChunksRef, mediaRecorderRef, startPc, existingTrack,
                 acq, stops, pendingStop, graceTimers, pendingData,
                 endPostPending, detailPending, submits, fetchPending,
                 micPending, answered, obsVars>>
pipelineState == <<error, screenRecorderRef, screenSharingStopped>>

\* The catch of ondataavailable: the failure is logged, nothing else
UploadFails(u, why) == [u EXCEPT !.pc = "failed", !.why = why]
CatchUploadErrorMut ==
  /\ error' = "chunk_upload_failed"
  /\ UNCHANGED <<screenRecorderRef, screenSharingStopped>>
CatchUploadError == UNCHANGED pipelineState

\* The FileReader settles. On success the chunk is emitted at once when the
\* socket is connected, otherwise the handler starts polling for it.
EncodeDone(i, ok) ==
  /\ i \in 1 .. Len(uploads) /\ uploads[i].pc = "encode"
  /\ IF ~ok
     THEN /\ uploads' = [uploads EXCEPT ![i] = UploadFails(@, "encode")]
          /\ CatchUploadError
          /\ UNCHANGED serverPending
     ELSE IF SocketConnected
          THEN /\ uploads' = [uploads EXCEPT ![i].pc = "inflight"]
               /\ serverPending' = serverPending + 1   \* emit save_video_chunk
               /\ UNCHANGED pipelineState
          ELSE /\ uploads' = [uploads EXCEPT ![i].pc = "wait"]
               /\ UNCHANGED <<serverPending, pipelineState>>
  /\ UNCHANGED <<uploadFrame, screenChunkIndexRef>>
  /\ UNCHANGED <<audioVars, alertPosts>>
  /\ UNCHANGED deviceVars
  /\ UNCHANGED intakeVars

\* A 100 ms poll finds the socket connected: emit save_video_chunk
WaitConnected(i) ==
  /\ i \in 1 .. Len(uploads) /\ uploads[i].pc = "wait"
  /\ SocketConnected
  /\ uploads' = [uploads EXCEPT ![i].pc = "inflight"]
  /\ serverPending' = serverPending + 1
  /\ UNCHANGED <<uploadFrame, screenChunkIndexRef, pipelineState>>
  /\ UNCHANGED <<audioVars, alertPosts>>
  /\ UNCHANGED deviceVars
  /\ UNCHANGED intakeVars

\* 5 s of polling passed without a connection: the chunk is given up
WaitGivesUpMut(i) ==
  /\ i \in 1 .. Len(uploads) /\ uploads[i].pc = "wait"
  /\ ~SocketConnected
  /\ uploads' = [uploads EXCEPT ![i].pc = "inflight"]
  /\ serverPending' = serverPending + 1
  /\ UNCHANGED <<uploadFrame, screenChunkIndexRef, pipelineState>>
  /\ UNCHANGED <<audioVars, alertPosts>>
  /\ UNCHANGED deviceVars
  /\ UNCHANGED intakeVars
WaitGivesUp(i) ==
  /\ i \in 1 .. Len(uploads) /\ uploads[i].pc = "wait"
  /\ ~SocketConnected
  /\ uploads' = [uploads EXCEPT ![i] = UploadFails(@, "noconn")]
  /\ CatchUploadError
  /\ UNCHANGED <<uploadFrame, screenChunkIndexRef, serverPending>>
  /\ UNCHANGED <<audioVars, alertPosts>>
  /\ UNCHANGED deviceVars
  /\ UNCHANGED intakeVars

\* A video_chunk_saved event arrives: every registered once-handler runs and
\* is removed; with response.ok each resolves its upload, which then counts
\* itself (screenChunkIndexRef.current++).
Listening(u) == u.pc = "inflight"
AwaitingMut(u) == u.pc = "inflight"
Awaiting(u) == u.pc \in {"inflight", "deaf"}
VideoChunkSaved(ok) ==
  /\ serverPending > 0
  /\ serverPending' = serverPending - 1
  /\ uploads' = [i \in 1 .. Len(uploads) |->
                   IF Listening(uploads[i])
                   THEN [uploads[i] EXCEPT !.pc = IF ok THEN "acked" ELSE "deaf"]
                   ELSE uploads[i]]
  /\ screenChunkIndexRef' = screenChunkIndexRef +
       (IF ok THEN Cardinality({i \in 1 .. Len(uploads) : Listening(uploads[i])})
        ELSE 0)
  /\ UNCHANGED <<uploadFrame, pipelineState>>
  /\ UNCHANGED <<audioVars, alertPosts>>
  /\ UNCHANGED deviceVars
  /\ UNCHANGED intakeVars

\* An error event arrives instead: every pending upload is rejected
SocketError ==
  /\ serverPending > 0
  /\ \E i \in 1 .. Len(uploads) : Awaiting(uploads[i])
  /\ serverPending' = serverPending - 1
  /\ uploads' = [i \in 1 .. Len(uploads) |->
                   IF Awaiting(uploads[i]) THEN UploadFails(uploads[i], "error")
                   ELSE uploads[i]]
  /\ CatchUploadError
  /\ UNCHANGED <<uploadFrame, screenChunkIndexRef>>
  /\ UNCHANGED <<audioVars, alertPosts>>
  /\ UNCHANGED deviceVars
  /\ UNCHANGED intakeVars

\* The 10 s timer of one upload fires
UploadTimeout(i) ==
  /\ i \in 1 .. Len(uploads) /\ Awaiting(uploads[i])
  /\ uploads' = [uploads EXCEPT ![i] = UploadFails(@, "timeout")]
  /\ CatchUploadError
  /\ UNCHANGED <<uploadFrame, screenChunkIndexRef, serverPending>>
  /\ UNCHANGED <<audioVars, alertPosts>>
  /\ UNCHANGED deviceVars
  /\ UNCHANGED intakeVars

\* ------------------------------------------------------------- channel
channelFrame == <<reactVars, timerIntervalRef, tabSwitchCountRef,
                  cheatingAlertsRef, screenRecorderRef, recorderGen,
                  screenStreamRef, screenChunksRef, screenChunkIndexRef,
                  mediaRecorderRef, procVars, durationMinutes, ticks,
                  endInvocations, endPosts, endEmits, submitPosts, fetches,
                  diagnostics, chunkEvents, restarts, typed, lastSubmit>>

\* socket 'connect': setSocketConnected(true), emit start_interview
SocketConnect ==
  /\ ~unmounted
  /\ socket = "disconnected"
  /\ socket' = "connected"
  /\ startEmits' = 1
  /\ UNCHANGED channelFrame
  /\ UNCHANGED <<audioVars, alertPosts>>
  /\ UNCHANGED deviceVars
  /\ UNCHANGED intakeVars

\* socket 'disconnect': setSocketConnected(false)
SocketDisconnect ==
  /\ socket = "connected"
  /\ socket' = "disconnected"
  /\ UNCHANGED <<channelFrame, startEmits>>
  /\ UNCHANGED <<audioVars, alertPosts>>
  /\ UNCHANGED deviceVars
  /\ UNCHANGED intakeVars

\* ------------------------------------------------------ audio pipeline
\* stopRecording: stop the recorder (its onstop releases the microphone)
StopRecording ==
  IF mediaRecorderRef = "recording"
  THEN mediaRecorderRef' = "inactive" /\ isRecording' = FALSE
  ELSE UNCHANGED <<mediaRecorderRef, isRecording>>

\* The record button (disabled while loading): rejected while screen sharing
\* is stopped; otherwise stopRecording, or startRecording up to its await.
ToggleBlockedMut == FALSE
ToggleBlocked == screenSharingStopped
ToggleRecording ==
  /\ ~unmounted
  /\ ~interviewComplete /\ ~loading
  /\ IF ToggleBlocked
     THEN /\ error' = "cannot_record"
          /\ UNCHANGED <<mediaRecorderRef, isRecording, micPending>>
     ELSE IF isRecording
          THEN /\ StopRecording
               /\ UNCHANGED <<error, micPending>>
          ELSE IF ~SocketConnected
               THEN /\ error' = "socket_not_connected"
                    /\ UNCHANGED <<mediaRecorderRef, isRecording, micPending>>
               ELSE /\ micPending < MaxMicPending
                    /\ micLive + micPending < MaxMics
                    /\ micPending' = micPending + 1
                    /\ UNCHANGED <<error, mediaRecorderRef, isRecording>>
  /\ UNCHANGED <<responseId, timeRemaining, interviewComplete, loading,
                 transcript, partialTranscript, currentQuestion,
                 screenSharingStopped>>
  /\ UNCHANGED <<timerIntervalRef, socket, tabSwitchCountRef,
                 cheatingAlertsRef, screenRecorderRef, recorderGen,
                 screenStreamRef, screenChunksRef, screenChunkIndexRef>>
  /\ UNCHANGED <<startPc, existingTrack, acq, stops, pendingStop, graceTimers,
                 pendingData, uploads, serverPending, endPostPending,
                 detailPending, submits, fetchPending, answered>>
  /\ UNCHANGED obsVars
  /\ UNCHANGED <<audioVars, alertPosts>>
  /\ micLive' = MicAfterStop
  /\ UNCHANGED <<screenCheckIntervalRef, quiet, unmounted>>
  /\ UNCHANGED intakeVars

\* getUserMedia of startRecording settles: a recorder is created and started
\* and both transcripts are cleared, or the microphone error is shown.
AudioMicResult(granted) ==
  /\ micPending > 0
  /\ micPending' = micPending - 1
  /\ IF granted
     THEN /\ mediaRecorderRef' = "recording"
          /\ isRecording' = TRUE
          /\ transcript' = <<>>
          /\ partialTranscript' = <<>>
          /\ UNCHANGED error
     ELSE /\ error' = "microphone"
          /\ UNCHANGED <<mediaRecorderRef, isRecording, transcript,
                         partialTranscript>>
  /\ UNCHANGED <<responseId, timeRemaining, interviewComplete, loading,
                 currentQuestion, screenSharingStopped>>
  /\ UNCHANGED <<timerIntervalRef, socket, tabSwitchCountRef,
                 cheatingAlertsRef, screenRecorderRef, recorderGen,
                 screenStreamRef, screenChunksRef, screenChunkIndexRef>>
  /\ UNCHANGED <<startPc, existingTrack, acq, stops, pendingStop, graceTimers,
                 pendingData, uploads, serverPending, endPostPending,
                 detailPending, submits, fetchPending, answered>>
  /\ UNCHANGED obsVars
  /\ UNCHANGED <<audioVars, alertPosts>>
  /\ micLive' = IF granted THEN micLive + 1 ELSE micLive
  /\ UNCHANGED <<screenCheckIntervalRef, quiet, unmounted>>
  /\ UNCHANGED intakeVars

\* ---------------------------------------------------------- transcript
transcriptFrame == <<responseId, timeRemaining, interviewComplete, loading,
                     error, isRecording, currentQuestion,
                     screenSharingStopped, refVars, procVars, durationMinutes,
                     ticks, endInvocations, endPosts, endEmits, submitPosts,
                     fetches, startEmits, diagnostics, chunkEvents, restarts,
                     lastSubmit>>

\* value of the textarea:
\* partialTranscript ? `${transcript} ${partialTranscript}`.trim() : transcript
TrimSpaces(t) ==
  LET solid == {i \in 1 .. Len(t) : t[i] # " "}
      lo == CHOOSE i \in solid : \A j \in solid : i <= j
      hi == CHOOSE i \in solid : \A j \in solid : i >= j
  IN IF solid = {} THEN <<>> ELSE SubSeq(t, lo, hi)
Displayed ==
  IF partialTranscript # <<>>
  THEN TrimSpaces(transcript \o <<" ">> \o partialTranscript)
  ELSE transcript

\* What onChange can deliver: the field replaced by a typed text, or one
\* character typed at the end of the value that is displayed
Edits == Texts \cup {Displayed \o <<"a">>}

\* The answer textarea (disabled while recording): setTranscript(e.target.value)
TypeTranscript(text) ==
  /\ ~unmounted
  /\ ~interviewComplete /\ ~isRecording
  /\ typed < MaxTyping
  /\ typed' = typed + 1
  /\ transcript' = text
  /\ UNCHANGED <<transcriptFrame, partialTranscript>>
  /\ UNCHANGED <<audioVars, alertPosts>>
  /\ UNCHANGED deviceVars
  /\ UNCHANGED intakeVars

\* partial_transcript / transcript_result from the server; the text of a
\* final and of an interim segment
FinalSegment == <<"f">>
InterimSegment == <<"p">>
TranscriptEvent(isFinal) ==
  /\ SocketConnected
  /\ mediaRecorderRef # "none"
  /\ IF isFinal
     THEN /\ Len(transcript) < 3
          /\ transcript' = AppendSegment(transcript, FinalSegment)
          /\ partialTranscript' = <<>>
     ELSE /\ partialTranscript' = InterimSegment
          /\ UNCHANGED transcript
  /\ UNCHANGED <<transcriptFrame, typed>>
  /\ UNCHANGED <<audioVars, alertPosts>>
  /\ UNCHANGED deviceVars
  /\ UNCHANGED intakeVars

\* ------------------------------------------------------ question fetch
\* fetchCurrentQuestion after its await: completion, the next question, or
\* the error text. Returns the new <<interviewComplete, currentQuestion, error>>.
\* ------------------------------------------------------ question audio
\* playTTSAudio: audioRef.current.pause() on the object the ref holds
PausePreviousMut(as, ref) == as
PausePrevious(as, ref) ==
  [k \in 1 .. Len(as) |->
     IF k = ref /\ as[k] = "playing" THEN "paused" ELSE as[k]]

\* playTTSAudio: pause and drop the previous Audio, create the next one and
\* call play() on it; plays is FALSE when the play() promise rejects
PlayTTSAudio(plays) ==
  /\ audios' = Append(PausePrevious(audios, audioRef),
                      IF plays THEN "playing" ELSE "paused")
  /\ audioRef' = Len(audios) + 1
  /\ spoken' = spoken + 1

\* The replay button of the question card: currentTime = 0 and play() on
\* the object the ref holds
ReplayQuestion ==
  /\ ~unmounted
  /\ ~interviewComplete /\ audioRef # 0
  /\ audios' = [audios EXCEPT ![audioRef] = "playing"]
  /\ UNCHANGED <<audioRef, spoken, alertPosts>>
  /\ UNCHANGED <<reactVars, refVars, procVars, obsVars>>
  /\ UNCHANGED deviceVars
  /\ UNCHANGED intakeVars

\* An Audio object plays to its end: onended
AudioEnded(k) ==
  /\ k \in 1 .. Len(audios) /\ audios[k] = "playing"
  /\ audios' = [audios EXCEPT ![k] = "ended"]
  /\ UNCHANGED <<audioRef, spoken, alertPosts>>
  /\ UNCHANGED <<reactVars, refVars, procVars, obsVars>>
  /\ UNCHANGED deviceVars
  /\ UNCHANGED intakeVars

FetchOutcomes == {"fail", "complete", "question"}
FetchResult(outcome) ==
  [ic |-> interviewComplete \/ outcome = "complete",
   q |-> IF outcome \in {"question", "spoken"} THEN answered + 1
         ELSE currentQuestion,
   err |-> IF outcome = "fail" THEN "fetch_failed" ELSE error]

\* The question fetch issued by startSession settles
FetchResponse(outcome) ==
  /\ fetchPending > 0
  /\ fetchPending' = fetchPending - 1
  /\ interviewComplete' = FetchResult(outcome).ic
  /\ currentQuestion' = FetchResult(outcome).q
  /\ error' = FetchResult(outcome).err
  /\ IF outcome = "complete" THEN CompleteEffects
     ELSE UNCHANGED <<timerIntervalRef, stopCore>>
  /\ UNCHANGED <<responseId, timeRemaining, loading, transcript,
                 partialTranscript, isRecording, screenSharingStopped>>
  /\ UNCHANGED <<socket, tabSwitchCountRef, cheatingAlertsRef,
                 screenRecorderRef, recorderGen, screenChunksRef,
                 screenChunkIndexRef, mediaRecorderRef>>
  /\ UNCHANGED <<startPc, existingTrack, acq, pendingStop, graceTimers,
                 uploads, serverPending, endPostPending, detailPending,
                 submits, micPending, answered>>
  /\ UNCHANGED obsVars
  /\ IF outcome = "spoken" THEN \E plays \in BOOLEAN : PlayTTSAudio(plays)
     ELSE UNCHANGED audioVars
  /\ UNCHANGED alertPosts
  /\ screenCheckIntervalRef' =
       CheckIntervalAfter(~interviewComplete /\ interviewComplete')
  /\ UNCHANGED <<quiet, unmounted, micLive>>
  /\ UNCHANGED intakeVars

\* ------------------------------------------------------- submit-answer
\* The guards of submitAnswer
SubmitAllowedNoText == responseId # Null /\ ~screenSharingStopped
SubmitAllowedMut == responseId # Null /\ Trimmed(transcript)
SubmitAllowed ==
  responseId # Null /\ Trimmed(transcript) /\ ~screenSharingStopped

\* The Submit Answer button (disabled while loading): submitAnswer up to its
\* await of the POST. sc is the socketConnected of the closure.
SubmitAnswer ==
  /\ ~unmounted
  /\ ~interviewComplete /\ ~loading
  /\ IF ~SubmitAllowed
     THEN /\ error' = IF responseId = Null \/ ~Trimmed(transcript)
                      THEN "record_first" ELSE "cannot_submit"
          /\ UNCHANGED <<loading, mediaRecorderRef, isRecording, submits,
                         submitPosts>>
     ELSE /\ submitPosts < MaxSubmits
          /\ loading' = TRUE
          /\ IF isRecording THEN StopRecording
             ELSE UNCHANGED <<mediaRecorderRef, isRecording>>
          /\ submitPosts' = submitPosts + 1
          /\ submits' = Append(submits, [pc |-> "post", sc |-> SocketConnected,
                                          sent |-> transcript])
          /\ UNCHANGED error
  /\ UNCHANGED <<responseId, timeRemaining, interviewComplete, transcript,
                 partialTranscript, currentQuestion, screenSharingStopped>>
  /\ UNCHANGED <<timerIntervalRef, socket, tabSwitchCountRef,
                 cheatingAlertsRef, screenRecorderRef, recorderGen,
                 screenStreamRef, screenChunksRef, screenChunkIndexRef>>
  /\ UNCHANGED <<startPc, existingTrack, acq, stops, pendingStop, graceTimers,
                 pendingData, uploads, serverPending, endPostPending,
                 detailPending, fetchPending, micPending, answered>>
  /\ UNCHANGED <<durationMinutes, ticks, endInvocations, endPosts, endEmits,
                 fetches, startEmits, diagnostics, chunkEvents, restarts,
                 typed, lastSubmit>>
  /\ UNCHANGED <<audioVars, alertPosts>>
  /\ micLive' = MicAfterStop
  /\ UNCHANGED <<screenCheckIntervalRef, quiet, unmounted>>
  /\ UNCHANGED intakeVars

\* Response of POST submit-answer: failure (catch, finally), completion, or
\* the next question: clear the transcript and await fetchCurrentQuestion.
TranscriptAfterMut(outcome, t) == IF outcome # "complete" THEN <<>> ELSE t
TranscriptAfter(outcome, t) == IF outcome = "next" THEN <<>> ELSE t
SubmitResponse(i, outcome) ==
  /\ i \in 1 .. Len(submits) /\ submits[i].pc = "post"
  /\ transcript' = TranscriptAfter(outcome, transcript)
  /\ IF outcome = "fail"
     THEN /\ error' = "submit_failed"
          /\ loading' = FALSE
          /\ submits' = RemoveAt(submits, i)
          /\ UNCHANGED <<interviewComplete, fetches, answered,
                         timerIntervalRef, stopCore>>
     ELSE IF outcome = "complete"
          THEN /\ interviewComplete' = TRUE
               /\ CompleteEffects
               /\ loading' = FALSE
               /\ answered' = answered + 1
               /\ submits' = RemoveAt(submits, i)
               /\ UNCHANGED <<error, fetches>>
          ELSE /\ fetches' = fetches + 1
               /\ answered' = answered + 1
               /\ submits' = [submits EXCEPT ![i].pc = "fetch"]
               /\ UNCHANGED <<error, loading, interviewComplete,
                              timerIntervalRef, stopCore>>
  /\ UNCHANGED <<responseId, timeRemaining, partialTranscript, isRecording,
                 currentQuestion, screenSharingStopped>>
  /\ UNCHANGED <<socket, tabSwitchCountRef, cheatingAlertsRef,
                 screenRecorderRef, recorderGen, screenChunksRef,
                 screenChunkIndexRef, mediaRecorderRef>>
  /\ UNCHANGED <<startPc, existingTrack, acq, pendingStop, graceTimers,
                 uploads, serverPending, endPostPending, detailPending,
                 fetchPending, micPending>>
  /\ UNCHANGED <<durationMinutes, ticks, endInvocations, endPosts, endEmits,
                 submitPosts, startEmits, diagnostics, chunkEvents, restarts,
                 typed, lastSubmit>>
  /\ UNCHANGED <<audioVars, alertPosts>>
  /\ screenCheckIntervalRef' =
       CheckIntervalAfter(~interviewComplete /\ interviewComplete')
  /\ UNCHANGED <<quiet, unmounted, micLive>>
  /\ UNCHANGED intakeVars

\* if (socketRef.current && socketConnected) emit start_interview, where
\* socketConnected is the value the submitAnswer closure captured
ReEmitsMut(sc) == FALSE
ReEmits(sc) == socket # "none" /\ sc

\* The question fetch awaited by submitAnswer settles; submitAnswer then
\* re-emits start_interview and its finally clears loading.
SubmitFetchDone(i, outcome) ==
  /\ i \in 1 .. Len(submits) /\ submits[i].pc = "fetch"
  /\ interviewComplete' = FetchResult(outcome).ic
  /\ currentQuestion' = FetchResult(outcome).q
  /\ error' = FetchResult(outcome).err
  /\ IF outcome = "complete" THEN CompleteEffects
     ELSE UNCHANGED <<timerIntervalRef, stopCore>>
  /\ lastSubmit' = [done |-> TRUE, emitted |-> ReEmits(submits[i].sc),
                    connected |-> SocketConnected]
  /\ loading' = FALSE
  /\ submits' = RemoveAt(submits, i)
  /\ UNCHANGED <<responseId, timeRemaining, transcript, partialTranscript,
                 isRecording, screenSharingStopped>>
  /\ UNCHANGED <<socket, tabSwitchCountRef, cheatingAlertsRef,
                 screenRecorderRef, recorderGen, screenChunksRef,
                 screenChunkIndexRef, mediaRecorderRef>>
  /\ UNCHANGED <<startPc, existingTrack, acq, pendingStop, graceTimers,
                 uploads, serverPending, endPostPending, detailPending,
                 fetchPending, micPending, answered>>
  /\ UNCHANGED <<durationMinutes, ticks, endInvocations, endPosts, endEmits,
                 submitPosts, fetches, startEmits, diagnostics, chunkEvents,
                 restarts, typed>>
  /\ IF outcome = "spoken" THEN \E plays \in BOOLEAN : PlayTTSAudio(plays)
     ELSE UNCHANGED audioVars
  /\ UNCHANGED alertPosts
  /\ screenCheckIntervalRef' =
       CheckIntervalAfter(~interviewComplete /\ interviewComplete')
  /\ UNCHANGED <<quiet, unmounted, micLive>>
  /\ UNCHANGED intakeVars

\* ------------------------------------------------------- specification
Next ==
  \/ \E ok \in BOOLEAN, d \in Durations : StartResponse(ok, d)
  \/ CameraDone
  \/ \E o \in {"ok", "window", "denied"} : DisplayResult(o)
  \/ \E t \in {"live", "ended"} : MicResult(t)
  \/ TrackEnded
  \/ RestartScreenSharing
  \/ \E o \in FetchOutcomes \cup {"spoken"} : FetchResponse(o)
  \/ ReplayQuestion
  \/ \E k \in 1 .. MaxSubmits + 1 : AudioEnded(k)
  \/ Tick
  \/ VisibilityHidden
  \/ WindowBlur
  \/ \E a \in BOOLEAN : ActivityCheck(a)
  \/ Unmount
  \/ HandleStart
  \/ \E ok \in BOOLEAN, id \in ServerIds : IntakeResponse(ok, id)
  \/ IntakeStarted
  \/ \E ok \in BOOLEAN : AlertResponse(ok)
  \/ EndButton
  \/ \E i \in 1 .. MaxStopCalls, t \in BOOLEAN : StopFlushDone(i, t)
  \/ \E g \in 1 .. MaxRestarts + 1 : RecorderStopEvent(g)
  \/ \E g \in 1 .. MaxRestarts + 1 : GraceDone(g)
  \/ \E ok \in BOOLEAN : EndResponse(ok)
  \/ DetailResponse
  \/ \E z \in ChunkSizes : DataAvailable(z)
  \/ \E i \in 1 .. MaxChunks, ok \in BOOLEAN : EncodeDone(i, ok)
  \/ \E i \in 1 .. MaxChunks : WaitConnected(i)
  \/ \E i \in 1 .. MaxChunks : WaitGivesUp(i)
  \/ \E ok \in BOOLEAN : VideoChunkSaved(ok)
  \/ SocketError
  \/ \E i \in 1 .. MaxChunks : UploadTimeout(i)
  \/ SocketConnect
  \/ SocketDisconnect
  \/ ToggleRecording
  \/ \E g \in BOOLEAN : AudioMicResult(g)
  \/ \E t \in Texts : TypeTranscript(t)
  \/ \E f \in BOOLEAN : TranscriptEvent(f)
  \/ SubmitAnswer
  \/ \E i \in 1 .. MaxSubmits, o \in {"fail", "complete", "next"} :
       SubmitResponse(i, o)
  \/ \E i \in 1 .. MaxSubmits, o \in FetchOutcomes \cup {"spoken"} :
       SubmitFetchDone(i, o)

Spec == Init /\ [][Next]_vars

\* Timed session in which the candidate's screen share has ended before the
\* session starts and is not granted again: start, countdown, integrity
\* monitor, End button and the end path.
InitTimer == Init /\ existingTrack = "ended"
NextTimer ==
  \/ \E ok \in BOOLEAN, d \in Durations : StartResponse(ok, d)
  \/ CameraDone
  \/ \E o \in {"window", "denied"} : DisplayResult(o)
  \/ \E o \in FetchOutcomes : FetchResponse(o)
  \/ Tick
  \/ VisibilityHidden
  \/ EndButton
  \/ \E ok \in BOOLEAN : EndResponse(ok)
  \/ DetailResponse

SpecTimer == InitTimer /\ [][NextTimer]_vars

\* Untimed session (duration_minutes 0) around a screen share that ends:
\* screen pipeline start, track end, stop and restart, the record button
\* and answer submission.
NextBlocked ==
  \/ \E ok \in BOOLEAN : StartResponse(ok, 0)
  \/ CameraDone
  \/ \E o \in {"ok", "window", "denied"} : DisplayResult(o)
  \/ \E t \in {"live", "ended"} : MicResult(t)
  \/ TrackEnded
  \/ RestartScreenSharing
  \/ \E i \in 1 .. MaxStopCalls, t \in BOOLEAN : StopFlushDone(i, t)
  \/ \E g \in 1 .. MaxRestarts + 1 : RecorderStopEvent(g)
  \/ \E g \in 1 .. MaxRestarts + 1 : GraceDone(g)
  \/ SocketConnect
  \/ ToggleRecording
  \/ \E g \in BOOLEAN : AudioMicResult(g)
  \/ \E t \in Texts : TypeTranscript(t)
  \/ SubmitAnswer
  \/ \E i \in 1 .. MaxSubmits, o \in {"fail", "complete", "next"} :
       SubmitResponse(i, o)
  \/ \E i \in 1 .. MaxSubmits : SubmitFetchDone(i, "question")

SpecBlocked == Init /\ [][NextBlocked]_vars

\* Untimed session around a screen share that ends and is not shared again:
\* screen pipeline start, track end and stop, the record button and answer
\* submission.
NextGuards ==
  \/ \E ok \in BOOLEAN : StartResponse(ok, 0)
  \/ CameraDone
  \/ \E o \in {"ok", "window", "denied"} : DisplayResult(o)
  \/ \E t \in {"live", "ended"} : MicResult(t)
  \/ TrackEnded
  \/ \E i \in 1 .. MaxStopCalls, t \in BOOLEAN : StopFlushDone(i, t)
  \/ \E g \in 1 .. MaxRestarts + 1 : RecorderStopEvent(g)
  \/ \E g \in 1 .. MaxRestarts + 1 : GraceDone(g)
  \/ SocketConnect
  \/ ToggleRecording
  \/ \E g \in BOOLEAN : AudioMicResult(g)
  \/ \E t \in Texts : TypeTranscript(t)
  \/ SubmitAnswer
  \/ \E i \in 1 .. MaxSubmits, o \in {"fail", "complete", "next"} :
       SubmitResponse(i, o)
  \/ \E i \in 1 .. MaxSubmits : SubmitFetchDone(i, "question")

SpecGuards == Init /\ [][NextGuards]_vars

\* Untimed session without a screen share: the channel, the answer text,
\* answer submission with its question fetch, and the End button.
NextSubmit ==
  \/ \E ok \in BOOLEAN : StartResponse(ok, 0)
  \/ CameraDone
  \/ \E o \in {"window", "denied"} : DisplayResult(o)
  \/ \E o \in FetchOutcomes : FetchResponse(o)
  \/ SocketConnect
  \/ SocketDisconnect
  \/ \E t \in Texts : TypeTranscript(t)
  \/ SubmitAnswer
  \/ \E i \in 1 .. MaxSubmits, o \in {"fail", "complete", "next"} :
       SubmitResponse(i, o)
  \/ \E i \in 1 .. MaxSubmits, o \in FetchOutcomes : SubmitFetchDone(i, o)
  \/ EndButton
  \/ \E ok \in BOOLEAN : EndResponse(ok)
  \/ DetailResponse

SpecSubmit == InitTimer /\ [][NextSubmit]_vars

\* Untimed session with a granted screen share: the recorder's chunks and
\* their upload over the channel, track end and stop.
InitScreen == Init /\ existingTrack = "live"
NextScreen ==
  \/ \E ok \in BOOLEAN : StartResponse(ok, 0)
  \/ CameraDone
  \/ \E t \in {"live", "ended"} : MicResult(t)
  \/ TrackEnded
  \/ \E i \in 1 .. MaxStopCalls, t \in BOOLEAN : StopFlushDone(i, t)
  \/ \E g \in 1 .. MaxRestarts + 1 : RecorderStopEvent(g)
  \/ \E g \in 1 .. MaxRestarts + 1 : GraceDone(g)
  \/ \E z \in ChunkSizes : DataAvailable(z)
  \/ \E i \in 1 .. MaxChunks, ok \in BOOLEAN : EncodeDone(i, ok)
  \/ \E i \in 1 .. MaxChunks : WaitConnected(i)
  \/ \E i \in 1 .. MaxChunks : WaitGivesUp(i)
  \/ \E ok \in BOOLEAN : VideoChunkSaved(ok)
  \/ SocketError
  \/ \E i \in 1 .. MaxChunks : UploadTimeout(i)
  \/ SocketConnect
  \/ SocketDisconnect

SpecScreen == InitScreen /\ [][NextScreen]_vars

\* The chunk uploads alone: a recorder that keeps running, its chunks, the
\* channel and the server's answers. The 10 s timer of an emitted upload
\* fires unless the upload was settled before.
NextUpload ==
  \/ \E ok \in BOOLEAN : StartResponse(ok, 0)
  \/ CameraDone
  \/ \E t \in {"live", "ended"} : MicResult(t)
  \/ \E z \in ChunkSizes : DataAvailable(z)
  \/ \E i \in 1 .. MaxChunks, ok \in BOOLEAN : EncodeDone(i, ok)
  \/ \E i \in 1 .. MaxChunks : WaitConnected(i)
  \/ \E i \in 1 .. MaxChunks : WaitGivesUp(i)
  \/ \E ok \in BOOLEAN : VideoChunkSaved(ok)
  \/ SocketError
  \/ \E i \in 1 .. MaxChunks : UploadTimeout(i)
  \/ SocketConnect
  \/ SocketDisconnect

UploadTimersFire == \A i \in 1 .. MaxChunks : WF_vars(UploadTimeout(i))
SpecUpload == InitScreen /\ [][NextUpload]_vars /\ UploadTimersFire

\* Untimed session without a screen share in which the candidate also
\* leaves the tab: answer submission interleaved with the end path entered
\* from the integrity monitor and from the End button.
NextAnswering ==
  \/ \E ok \in BOOLEAN : StartResponse(ok, 0)
  \/ CameraDone
  \/ \E o \in {"window", "denied"} : DisplayResult(o)
  \/ \E o \in FetchOutcomes : FetchResponse(o)
  \/ \E t \in Texts : TypeTranscript(t)
  \/ SubmitAnswer
  \/ \E i \in 1 .. MaxSubmits, o \in {"fail", "complete", "next"} :
       SubmitResponse(i, o)
  \/ \E i \in 1 .. MaxSubmits, o \in FetchOutcomes : SubmitFetchDone(i, o)
  \/ VisibilityHidden
  \/ EndButton
  \/ \E ok \in BOOLEAN : EndResponse(ok)
  \/ DetailResponse

SpecAnswering == InitTimer /\ [][NextAnswering]_vars

\* Untimed session from its first request to its last: every operation that
\* sends the responseId to the backend (question fetch, start_interview and
\* save_video_chunk emits, submit-answer, end-interview), with a backend that
\* answers every request positively once the session has started.
NextRequests ==
  \/ \E ok \in BOOLEAN : StartResponse(ok, 0)
  \/ CameraDone
  \/ \E o \in {"ok", "denied"} : DisplayResult(o)
  \/ MicResult("live")
  \/ FetchResponse("question")
  \/ SocketConnect
  \/ DataAvailable(SanityFloor)
  \/ \E i \in 1 .. MaxChunks : EncodeDone(i, TRUE)
  \/ \E i \in 1 .. MaxChunks : WaitConnected(i)
  \/ VideoChunkSaved(TRUE)
  \/ TypeTranscript(<<"a">>)
  \/ SubmitAnswer
  \/ \E i \in 1 .. MaxSubmits : SubmitResponse(i, "next")
  \/ \E i \in 1 .. MaxSubmits : SubmitFetchDone(i, "question")
  \/ EndButton
  \/ \E i \in 1 .. MaxStopCalls : StopFlushDone(i, FALSE)
  \/ \E g \in 1 .. MaxRestarts + 1 : RecorderStopEvent(g)
  \/ \E g \in 1 .. MaxRestarts + 1 : GraceDone(g)
  \/ EndResponse(TRUE)
  \/ DetailResponse

SpecRequests == Init /\ [][NextRequests]_vars

\* Untimed session without a screen share: the audio recorder, the transcript
\* events of the channel, edits of the answer field and answer submission.
NextTranscript ==
  \/ StartResponse(TRUE, 0)
  \/ CameraDone
  \/ DisplayResult("denied")
  \/ SocketConnect
  \/ ToggleRecording
  \/ \E g \in BOOLEAN : AudioMicResult(g)
  \/ \E f \in BOOLEAN : TranscriptEvent(f)
  \/ \E t \in Edits : TypeTranscript(t)
  \/ SubmitAnswer
  \/ \E i \in 1 .. MaxSubmits, o \in {"fail", "complete", "next"} :
       SubmitResponse(i, o)
  \/ \E i \in 1 .. MaxSubmits, o \in FetchOutcomes : SubmitFetchDone(i, o)

SpecTranscript == InitTimer /\ [][NextTranscript]_vars

\* Timed session without a screen share that is completed by its answers,
\* by the question fetch, by the End button or by the countdown.
NextCountdown ==
  \/ \E d \in Durations : StartResponse(TRUE, d)
  \/ CameraDone
  \/ DisplayResult("denied")
  \/ \E o \in FetchOutcomes : FetchResponse(o)
  \/ Tick
  \/ TypeTranscript(<<"a">>)
  \/ SubmitAnswer
  \/ \E i \in 1 .. MaxSubmits, o \in {"fail", "complete", "next"} :
       SubmitResponse(i, o)
  \/ \E i \in 1 .. MaxSubmits, o \in FetchOutcomes : SubmitFetchDone(i, o)
  \/ EndButton
  \/ \E ok \in BOOLEAN : EndResponse(ok)
  \/ DetailResponse

SpecCountdown == InitTimer /\ [][NextCountdown]_vars

\* Untimed session with a granted screen share that is brought to its end:
\* track end, End button, integrity monitor and natural completion, each of
\* which stops the screen recorder, and the end-interview call.
NextEnding ==
  \/ StartResponse(TRUE, 0)
  \/ CameraDone
  \/ MicResult("live")
  \/ TrackEnded
  \/ \E o \in FetchOutcomes : FetchResponse(o)
  \/ VisibilityHidden
  \/ EndButton
  \/ \E i \in 1 .. MaxStopCalls, t \in BOOLEAN : StopFlushDone(i, t)
  \/ \E g \in 1 .. MaxRestarts + 1 : RecorderStopEvent(g)
  \/ \E g \in 1 .. MaxRestarts + 1 : GraceDone(g)
  \/ \E ok \in BOOLEAN : EndResponse(ok)
  \/ DetailResponse

SpecEnding == InitScreen /\ [][NextEnding]_vars

\* ================================================================ claims
TimerEnds ==
  Cardinality({i \in 1 .. Len(endInvocations) : endInvocations[i] = "timer"})
UploadSizes == [i \in 1 .. Len(uploads) |-> uploads[i].size]
NonEmptyChunk(z) == z > 0
CurrentUploads == {i \in 1 .. Len(uploads) : uploads[i].gen = recorderGen}

\* C1: the chunk indices read by ondataavailable for successive chunks of a
\* recorder are 0, 1, 2, ...: none skipped, none given to two chunks.
C1_ContiguousIndices ==
  \A i \in 1 .. Len(uploads) :
    uploads[i].idx =
      Cardinality({j \in 1 .. i - 1 : uploads[j].gen = uploads[i].gen})

\* C2: a session produces at most one end-interview POST and at most one
\* end_interview emit, however often the end path is invoked.
C2_SingleEndCall == endPosts <= 1 /\ endEmits <= 1

\* C3: once every end call that was started has returned, whatever the
\* outcome of its end-interview request, the session is Complete.
C3_EndReachesComplete ==
  (endPosts > 0 /\ endPostPending = 0 /\ detailPending = 0) => interviewComplete

\* C4: with a positive duration d, timeRemaining is 60*d minus the number of
\* ticks, never negative, and the timer has invoked the end path once when
\* timeRemaining is 0 and not at all before.
C4_Countdown ==
  durationMinutes > 0 =>
    /\ timeRemaining = 60 * durationMinutes - ticks
    /\ timeRemaining >= 0
    /\ TimerEnds = (IF timeRemaining = 0 THEN 1 ELSE 0)
C4_Witness ==
  /\ durationMinutes > 0 /\ timeRemaining = 0
  /\ ticks = 60 * durationMinutes /\ TimerEnds = 1

\* C5: the visibility-hidden transition that brings the tab-switch count to
\* 3 invokes the end path; the transitions to 1 and 2 do not.
C5_TabSwitchLimit ==
  [][tabSwitchCountRef' # tabSwitchCountRef =>
       /\ tabSwitchCountRef' = 3 =>
            endInvocations' = Append(endInvocations, "tab")
       /\ tabSwitchCountRef' \in {1, 2} => endInvocations' = endInvocations]_vars
C5_Witness == tabSwitchCountRef = 3 /\ endInvocations = <<"tab">>

C7_ReEmitWhenConnected ==
  (lastSubmit.done /\ lastSubmit.connected) => lastSubmit.emitted

\* C8 as claimed: a session started with duration 0 has entered the end path.
C8_ZeroDurationEndsAtOnce ==
  (responseId # Null /\ durationMinutes = 0) =>
    (ticks = 0 /\ endInvocations # <<>>)
\* C8 as amended: a session started with duration 0 is untimed: timeRemaining
\* stays null, no interval exists, no tick happens and the timer never
\* invokes the end path.
C8_ZeroDurationUntimed ==
  durationMinutes = 0 =>
    /\ timeRemaining = NoTime /\ ~timerIntervalRef
    /\ ticks = 0 /\ TimerEnds = 0
C8_Witness ==
  /\ durationMinutes = 0 /\ responseId # Null /\ startPc = "done"
  /\ tabSwitchCountRef > 0

\* C9: every chunk of non-zero size, below the 1000-byte floor or not, is
\* collected and gets an upload attempt, a diagnostic is recorded exactly
\* for the chunks below the floor, acknowledged chunks are the ones counted,
\* and zero-size chunks are neither collected nor uploaded.
C9_SmallChunkHandled ==
  /\ UploadSizes = SelectSeq(chunkEvents, NonEmptyChunk)
  /\ screenChunksRef = UploadSizes
  /\ diagnostics = Cardinality({i \in 1 .. Len(uploads) : uploads[i].size < 1000})
  /\ screenChunkIndexRef =
       Cardinality({i \in CurrentUploads : uploads[i].pc = "acked"})
C9_Witness ==
  /\ \E i \in 1 .. Len(uploads) :
       uploads[i].size < 1000 /\ uploads[i].pc = "acked"
  /\ \E j \in 1 .. Len(chunkEvents) : chunkEvents[j] = 0

\* C10: a step in which a chunk upload fails changes neither the recorder,
\* the blocked flag, the error text, the completion flag nor the end path.
C10_UploadFailureConfined ==
  [][(\E i \in 1 .. Len(uploads) :
        uploads[i].pc # "failed" /\ uploads'[i].pc = "failed") =>
       UNCHANGED <<screenRecorderRef, screenSharingStopped, error,
                   interviewComplete, loading, endInvocations, endPosts>>]_vars
C10_Witness ==
  /\ Len(uploads) >= 2 /\ uploads[1].pc = "failed"
  /\ uploads[2].pc \in {"inflight", "acked"}
  /\ screenRecorderRef = "recording" /\ error = ""

\* C11: one video_chunk_saved or error event settles at most one chunk
\* upload: no step turns two uploads acknowledged (or failed) at once.
Settled(u) == u.pc \in {"acked", "failed"}
C11_AckSettlesOneUpload ==
  [][Cardinality({i \in 1 .. Len(uploads) :
        ~Settled(uploads[i]) /\ Settled(uploads'[i])}) <= 1]_vars

\* C12: every upload that was emitted on the channel is eventually settled,
\* acknowledged or failed, whatever the server answers or fails to answer.
C12_UploadResolves ==
  \A i \in 1 .. MaxChunks :
    (Len(uploads) >= i /\ Awaiting(uploads[i]))
      ~> (Len(uploads) >= i /\ Settled(uploads[i]))
C12_Witness ==
  \E i \in 1 .. Len(uploads) :
    /\ uploads[i].pc = "failed" /\ uploads[i].why = "timeout"
    /\ \E j \in 1 .. Len(uploads) : uploads[j].pc = "acked"

\* C13: at most one submit-answer request is in flight at any time.
C13_SingleSubmitInFlight ==
  Cardinality({i \in 1 .. Len(submits) : submits[i].pc = "post"}) <= 1

\* C14: responseId is null until the start response, is assigned once and
\* never changes afterwards, and no request that carries the responseId
\* (question fetch, start_interview, save_video_chunk, submit-answer,
\* end-interview, end_interview) is made while it is null.
Emitted(u) == u.pc \in {"inflight", "deaf", "acked"}
C14_ResponseIdStable ==
  /\ [](responseId \in {Null, RespId})
  /\ [](responseId = Null =>
          /\ fetches = 0 /\ startEmits = 0 /\ submitPosts = 0
          /\ endPosts = 0 /\ endEmits = 0
          /\ \A i \in 1 .. Len(uploads) : ~Emitted(uploads[i]))
  /\ [][responseId' # responseId =>
          responseId = Null /\ responseId' = RespId /\ startPc = "post"]_vars
C14_Witness ==
  /\ responseId = RespId /\ submitPosts > 0 /\ endPosts > 0 /\ fetches > 1
  /\ startEmits > 0
  /\ \E i \in 1 .. Len(uploads) : Emitted(uploads[i])

\* C15: the transcript sent by submit-answer never contains the text of a
\* pending (interim) segment.
Contains(t, seg) ==
  \E i \in 1 .. Len(t) - Len(seg) + 1 : SubSeq(t, i, i + Len(seg) - 1) = seg
C15_PendingNeverSubmitted ==
  \A i \in 1 .. Len(submits) : ~Contains(submits[i].sent, InterimSegment)

\* C16: in a Complete session no interval exists, and no step changes
\* timeRemaining, counts a tick or invokes the end path.
C16_CompleteCancelsTimer ==
  /\ [](interviewComplete => ~timerIntervalRef)
  /\ [][interviewComplete =>
          UNCHANGED <<timeRemaining, ticks, endInvocations, endPosts>>]_vars
C16_Witness ==
  /\ interviewComplete /\ answered > 0 /\ endInvocations = <<>>
  /\ ticks > 0 /\ timeRemaining > 0 /\ loading = FALSE

\* C17: the guard of the end operation rejects the call when no responseId
\* exists or the session is Complete; a click on End without a responseId
\* changes nothing at all, and no call of the end operation gets past the
\* guard while no responseId exists or the session is Complete.
C17_EndNoOp ==
  /\ []((responseId = Null \/ interviewComplete) =>
          ~EndGuard(responseId, interviewComplete))
  /\ [][(responseId = Null /\ EndButton) => UNCHANGED vars]_vars
  /\ [][(responseId = Null \/ interviewComplete) =>
          endInvocations' = endInvocations]_vars
C17_Witness ==
  /\ interviewComplete /\ endInvocations # <<>> /\ endPostPending = 0
  /\ detailPending = 0 /\ ~loading

\* C18: a submit-answer request is issued only with a responseId, a
\* transcript that is non-empty after trimming and an unblocked screen
\* pipeline; a rejected submitAnswer sets an error message and leaves the
\* transcript, the question, loading and the completion flag as they were.
SubmitPreconditions ==
  responseId # Null /\ Trimmed(transcript) /\ ~screenSharingStopped
C18_SubmitGuards ==
  /\ [][submitPosts' # submitPosts => SubmitPreconditions]_vars
  /\ [][(SubmitAnswer /\ ~SubmitPreconditions) =>
          /\ error' \in {"record_first", "cannot_submit"}
          /\ UNCHANGED <<transcript, currentQuestion, loading,
                         interviewComplete, submits, submitPosts>>]_vars
C18_Witness ==
  /\ responseId # Null /\ transcript = <<" ">> /\ error = "record_first"
  /\ submitPosts = 0 /\ ~loading /\ ~screenSharingStopped

\* C19: in a running session, whenever the blocked flag is clear after a
\* restart, a live screen stream and a recording recorder exist.
C19_RestartReacquires ==
  (restarts > 0 /\ ~screenSharingStopped /\ ~interviewComplete) =>
    (screenStreamRef = "live" /\ screenRecorderRef = "recording")

\* C20: every end call that waits inside stopScreenRecording for the stop
\* event of its recorder has such an event still to come.
C20_StopWaitResolves ==
  \A i \in 1 .. Len(stops) :
    (stops[i].forEnd /\ stops[i].pc \in {"stopwait", "hung"}) =>
      stops[i].gen \in pendingStop

\* Untimed session without a screen share: questions fetched with
\* synthesized audio, their playback and replay, answers and the End button.
NextAudio ==
  \/ StartResponse(TRUE, 0)
  \/ CameraDone
  \/ DisplayResult("denied")
  \/ \E o \in {"question", "spoken"} : FetchResponse(o)
  \/ ReplayQuestion
  \/ \E k \in 1 .. MaxSubmits + 1 : AudioEnded(k)
  \/ TypeTranscript(<<"a">>)
  \/ SubmitAnswer
  \/ \E i \in 1 .. MaxSubmits : SubmitResponse(i, "next")
  \/ \E i \in 1 .. MaxSubmits, o \in {"complete", "spoken"} :
       SubmitFetchDone(i, o)
  \/ EndButton
  \/ EndResponse(TRUE)
  \/ DetailResponse

SpecAudio == InitTimer /\ [][NextAudio]_vars

\* Untimed session without a screen share: the integrity monitor's events,
\* the forwarding of their alerts and the End button.
NextIntegrity ==
  \/ \E ok \in BOOLEAN : StartResponse(ok, 0)
  \/ CameraDone
  \/ DisplayResult("denied")
  \/ FetchResponse("question")
  \/ VisibilityHidden
  \/ WindowBlur
  \/ \E ok \in BOOLEAN : AlertResponse(ok)
  \/ EndButton
  \/ \E ok \in BOOLEAN : EndResponse(ok)
  \/ DetailResponse

SpecIntegrity == InitTimer /\ [][NextIntegrity]_vars

\* Untimed session, any outcome of the camera and screen start: the
\* question fetch, the answer text and answer submission after it.
NextStart ==
  \/ \E ok \in BOOLEAN : StartResponse(ok, 0)
  \/ CameraDone
  \/ \E o \in {"ok", "window", "denied"} : DisplayResult(o)
  \/ \E t \in {"live", "ended"} : MicResult(t)
  \/ \E o \in FetchOutcomes : FetchResponse(o)
  \/ \E t \in Texts : TypeTranscript(t)
  \/ SubmitAnswer
  \/ \E i \in 1 .. MaxSubmits, o \in {"fail", "complete", "next"} :
       SubmitResponse(i, o)
  \/ \E i \in 1 .. MaxSubmits, o \in FetchOutcomes : SubmitFetchDone(i, o)

SpecStart == Init /\ [][NextStart]_vars

\* Untimed session with a granted screen share: the liveness check of the
\* shared track, track end, stop and completion.
NextActivity ==
  \/ StartResponse(TRUE, 0)
  \/ CameraDone
  \/ \E t \in {"live", "ended"} : MicResult(t)
  \/ \E a \in BOOLEAN : ActivityCheck(a)
  \/ TrackEnded
  \/ \E i \in 1 .. MaxStopCalls, t \in BOOLEAN : StopFlushDone(i, t)
  \/ \E g \in 1 .. MaxRestarts + 1 : RecorderStopEvent(g)
  \/ \E g \in 1 .. MaxRestarts + 1 : GraceDone(g)
  \/ \E o \in {"question", "complete"} : FetchResponse(o)

SpecActivity == InitScreen /\ [][NextActivity]_vars

\* Untimed session: screen and audio capture, and teardown of the component
\* at any moment, with the acquisitions that settle after it.
NextTeardown ==
  \/ StartResponse(TRUE, 0)
  \/ CameraDone
  \/ \E o \in {"ok", "denied"} : DisplayResult(o)
  \/ \E t \in {"live", "ended"} : MicResult(t)
  \/ SocketConnect
  \/ ToggleRecording
  \/ \E g \in BOOLEAN : AudioMicResult(g)
  \/ Unmount

SpecTeardown == Init /\ [][NextTeardown]_vars

\* Untimed session with a granted screen share: the record button, the
\* audio recorder and its live transcripts, completion and the End button.
NextRecording ==
  \/ StartResponse(TRUE, 0)
  \/ CameraDone
  \/ MicResult("live")
  \/ SocketConnect
  \/ ToggleRecording
  \/ \E g \in BOOLEAN : AudioMicResult(g)
  \/ \E f \in BOOLEAN : TranscriptEvent(f)
  \/ \E o \in FetchOutcomes : FetchResponse(o)
  \/ EndButton
  \/ \E i \in 1 .. MaxStopCalls, t \in BOOLEAN : StopFlushDone(i, t)
  \/ \E g \in 1 .. MaxRestarts + 1 : RecorderStopEvent(g)
  \/ \E g \in 1 .. MaxRestarts + 1 : GraceDone(g)
  \/ \E ok \in BOOLEAN : EndResponse(ok)
  \/ DetailResponse

SpecRecording == InitScreen /\ [][NextRecording]_vars

\* The intake form and the start of the session it mounts.
NextIntake ==
  \/ HandleStart
  \/ \E ok \in BOOLEAN, id \in ServerIds : IntakeResponse(ok, id)
  \/ IntakeStarted
  \/ \E ok \in BOOLEAN : StartResponse(ok, 0)
  \/ CameraDone
  \/ \E o \in {"ok", "window", "denied"} : DisplayResult(o)
  \/ \E t \in {"live", "ended"} : MicResult(t)
  \/ SocketConnect
  \/ \E o \in FetchOutcomes : FetchResponse(o)

SpecIntake == InitIntake /\ [][NextIntake]_vars

\* Untimed session with a granted screen share that ends and is shared
\* again: the recorder's acknowledged chunks across a restart.
NextReshare ==
  \/ StartResponse(TRUE, 0)
  \/ CameraDone
  \/ DisplayResult("ok")
  \/ \E t \in {"live", "ended"} : MicResult(t)
  \/ TrackEnded
  \/ RestartScreenSharing
  \/ \E i \in 1 .. MaxStopCalls, t \in BOOLEAN : StopFlushDone(i, t)
  \/ \E g \in 1 .. MaxRestarts + 1 : RecorderStopEvent(g)
  \/ \E g \in 1 .. MaxRestarts + 1 : GraceDone(g)
  \/ \E z \in ChunkSizes : DataAvailable(z)
  \/ \E i \in 1 .. MaxChunks : EncodeDone(i, TRUE)
  \/ VideoChunkSaved(TRUE)
  \/ SocketConnect

SpecReshare == InitScreen /\ [][NextReshare]_vars

\* C21: in a step in which a stopScreenRecording call returns, no chunk
\* upload that was emitted still awaits its acknowledgement.
C21_StopWaitsForUploads ==
  [][Len(stops') < Len(stops) =>
       \A i \in 1 .. Len(uploads) : ~Awaiting(uploads[i])]_vars

\* C22: in a Complete session no step changes the question or issues a
\* question fetch.
C22_LateResultsIgnored ==
  [][interviewComplete => UNCHANGED <<currentQuestion, fetches>>]_vars

\* C23: a chunk waits for the channel only when it was not connected; it
\* leaves the wait either emitted, with the channel connected, or given up:
\* failed without an emit, the counter, the recorder, the error text and
\* every other upload unchanged; a chunk given up is never acknowledged.
GivenUp(u) == u.pc = "failed" /\ u.why = "noconn"
C23_PollThenGiveUp ==
  /\ [](\A i \in 1 .. Len(uploads) :
          uploads[i].why = "noconn" => uploads[i].pc = "failed")
  /\ [][\A i \in 1 .. Len(uploads) :
          /\ (uploads[i].pc # "wait" /\ uploads'[i].pc = "wait") =>
               ~SocketConnected
          /\ (uploads[i].pc = "wait" /\ uploads'[i].pc # "wait") =>
               \/ /\ uploads'[i].pc = "inflight" /\ SocketConnected
                  /\ serverPending' = serverPending + 1
               \/ /\ GivenUp(uploads'[i])
                  /\ UNCHANGED <<serverPending, screenChunkIndexRef,
                                 pipelineState, interviewComplete>>
                  /\ \A j \in 1 .. Len(uploads) :
                       j # i => uploads'[j] = uploads[j]]_vars
C23_Witness ==
  /\ Len(uploads) >= 2 /\ GivenUp(uploads[1]) /\ uploads[2].pc = "acked"
  /\ screenRecorderRef = "recording" /\ screenChunkIndexRef = 1

\* C24: no step lowers the chunk counter.
C24_CounterNeverDecreases ==
  [][screenChunkIndexRef' >= screenChunkIndexRef]_vars

\* C25: while a submit-answer request awaits its response, the audio
\* recorder is not recording.
C25_NoRecordingWhileSubmitting ==
  (\E i \in 1 .. Len(submits) : submits[i].pc = "post") =>
    mediaRecorderRef # "recording"

\* C26: at most one Audio object is playing and it is the one audioRef
\* holds; one object has been created per question fetched with audio, so a
\* replay creates none.
Playing == {k \in 1 .. Len(audios) : audios[k] = "playing"}
C26_OneAudioPlaying ==
  /\ Cardinality(Playing) <= 1
  /\ Playing \subseteq {audioRef}
  /\ Len(audios) = spoken
  /\ audioRef = Len(audios)
C26_Witness ==
  /\ audios = <<"paused", "playing">>
  /\ audioRef = 2 /\ ~interviewComplete

\* C27: a step that increments the tab-switch counter, appends a tab_switch
\* or window_blur alert, or enters the end path from the monitor starts in a
\* state with a responseId and not Complete.
MonitorAlerts == {"tab_switch", "window_blur"}
C27_MonitorOnlyWhileActive ==
  [][(\/ tabSwitchCountRef' # tabSwitchCountRef
      \/ /\ Len(cheatingAlertsRef') > Len(cheatingAlertsRef)
         /\ cheatingAlertsRef'[Len(cheatingAlertsRef')] \in MonitorAlerts
      \/ /\ Len(endInvocations') > Len(endInvocations)
         /\ endInvocations'[Len(endInvocations')] = "tab")
     => responseId # Null /\ ~interviewComplete]_vars
C27_Witness ==
  /\ interviewComplete /\ tabSwitchCountRef = 1
  /\ cheatingAlertsRef = <<"window_blur", "tab_switch">>

\* C28: the integrity log only grows at its end; a step that changes the
\* tab-switch counter adds exactly 1 to it and appends exactly one
\* tab_switch entry; the counter equals the number of tab_switch entries.
TabEntries == Cardinality({k \in 1 .. Len(cheatingAlertsRef) :
                            cheatingAlertsRef[k] = "tab_switch"})
C28_LogAppendOnly ==
  /\ [](tabSwitchCountRef = TabEntries)
  /\ [][/\ Len(cheatingAlertsRef') >= Len(cheatingAlertsRef)
        /\ SubSeq(cheatingAlertsRef', 1, Len(cheatingAlertsRef)) =
             cheatingAlertsRef
        /\ tabSwitchCountRef' # tabSwitchCountRef =>
             /\ tabSwitchCountRef' = tabSwitchCountRef + 1
             /\ cheatingAlertsRef' = Append(cheatingAlertsRef, "tab_switch")]_vars
C28_Witness ==
  /\ cheatingAlertsRef = <<"tab_switch", "window_blur", "tab_switch">>
  /\ tabSwitchCountRef = 2

\* C29: a step in which a record-cheating-alert request settles, with
\* success or failure, changes neither the log, the tab-switch counter, the
\* error text, the recording state nor the session phase; the step that
\* sends the request also appends the entry and finishes the handler.
C29_AlertFireAndForget ==
  [][/\ alertPosts' < alertPosts =>
          UNCHANGED <<cheatingAlertsRef, tabSwitchCountRef, error,
                      isRecording, mediaRecorderRef, screenRecorderRef,
                      responseId, interviewComplete, loading>>
     /\ alertPosts' > alertPosts =>
          /\ Len(cheatingAlertsRef') = Len(cheatingAlertsRef) + 1
          /\ tabSwitchCountRef' # tabSwitchCountRef =>
               error' \in {"tab_warning", "terminated"}]_vars
C29_Witness ==
  /\ interviewComplete /\ alertPosts = 1
  /\ Len(cheatingAlertsRef) = 2 /\ error = "tab_warning"

\* C30: when startSession's screen start fails, the session is started all
\* the same: responseId set, the question fetch issued, loading false; a
\* window or tab share (validation failure) leaves the error text as it
\* was, a denied share or an ended track sets it, and the settling of the
\* camera preview leaves it as it was.
SessionStarted ==
  /\ responseId = RespId /\ fetches >= 1 /\ ~loading /\ startPc = "done"
  /\ screenRecorderRef = "none"
C30_ScreenFailureSoft ==
  [][/\ (acq.caller = "start" /\ DisplayResult("window")) =>
          error' = error /\ SessionStarted'
     /\ (acq.caller = "start" /\ DisplayResult("denied")) =>
          error' = "screen_failed" /\ SessionStarted'
     /\ (acq.caller = "start" /\ MicResult("ended")) =>
          error' = "screen_failed" /\ SessionStarted'
     /\ CameraDone => error' = error /\ responseId' = RespId]_vars
C30_Witness ==
  /\ SessionStarted /\ error = "" /\ acq.pc = "idle" /\ restarts = 0
  /\ existingTrack = "ended" /\ Trimmed(transcript)

\* C40: a step in which a submit-answer request fails sets the error text
\* and clears loading; the transcript, the question, the number of question
\* fetches and the completion flag stay as they were.
C40_SubmitFailureConfined ==
  [][\A i \in 1 .. MaxSubmits :
       SubmitResponse(i, "fail") =>
         /\ error' = "submit_failed" /\ ~loading'
         /\ UNCHANGED <<transcript, currentQuestion, fetches, fetchPending,
                        interviewComplete, answered>>]_vars
C40_Witness ==
  /\ error = "submit_failed" /\ submitPosts = 2 /\ Len(submits) = 1
  /\ submits[1].pc = "post" /\ answered = 0 /\ ~interviewComplete

\* C38: interviewComplete never returns to false, and in a Complete session
\* no step sends a submit-answer or an end-interview request.
C38_CompleteAbsorbing ==
  [][interviewComplete =>
       /\ interviewComplete'
       /\ UNCHANGED <<submitPosts, endPosts>>]_vars

\* C35: a step in which a stopScreenRecording call returns while the
\* recorder started by a restart is recording leaves the stream of that
\* recorder live and referenced.
C35_StopReleasesOwnStream ==
  [][(Len(stops') < Len(stops) /\ restarts > 0
      /\ screenRecorderRef = "recording" /\ screenStreamRef = "live")
     => screenStreamRef' = "live"]_vars

\* C31: with a live shared track, once more than PauseLimit seconds of
\* liveness checks have passed without track activity the log holds a
\* screen_pause alert.
HasAlert(type) ==
  \E k \in 1 .. Len(cheatingAlertsRef) : cheatingAlertsRef[k] = type
C31_PauseAlert ==
  (screenStreamRef = "live" /\ quiet * CheckPeriod > PauseLimit) =>
    HasAlert("screen_pause")

\* C34: after teardown no screen stream is live, no screen recorder is
\* recording and no microphone stream of an audio recorder is live.
C34_ReleasedAfterTeardown ==
  unmounted =>
    /\ screenStreamRef # "live" /\ screenRecorderRef # "recording"
    /\ micLive = 0 /\ mediaRecorderRef # "recording"

C33_StopRecordingFrame ==
  [][(ToggleRecording /\ isRecording /\ ~screenSharingStopped) =>
       /\ mediaRecorderRef = "recording" /\ mediaRecorderRef' = "inactive"
       /\ ~isRecording'
       /\ micLive' = micLive - 1
       /\ UNCHANGED <<transcript, partialTranscript, currentQuestion,
                      screenRecorderRef, screenStreamRef, screenChunksRef,
                      screenChunkIndexRef, recorderGen>>]_vars
C33_Witness ==
  /\ mediaRecorderRef = "inactive" /\ ~isRecording /\ micLive = 0
  /\ transcript # <<>> /\ partialTranscript # <<>>
  /\ screenRecorderRef = "recording" /\ screenStreamRef = "live"

\* C36: in a Complete session with no stop of the screen pipeline pending,
\* the screen recorder is not recording, the screen stream is not live, the
\* audio recorder is not recording and no microphone stream is live.
NoStopPending ==
  /\ \A i \in 1 .. Len(stops) : stops[i].pc \notin {"flush", "stopwait"}
  /\ pendingStop = {} /\ graceTimers = {}
C36_NothingCapturesWhenComplete ==
  (interviewComplete /\ NoStopPending /\ micPending = 0) =>
    /\ screenRecorderRef # "recording" /\ screenStreamRef # "live"
    /\ mediaRecorderRef # "recording" /\ micLive = 0

\* C37: the number of live microphone streams of audio recorders is at most
\* one, and one is live only while mediaRecorderRef holds a recording
\* recorder.
C37_OneReferencedRecorder ==
  /\ micLive <= 1
  /\ micLive = 1 => mediaRecorderRef = "recording"

\* C39: once the session has its responseId, the attempt has sent one
\* start-interview request and the photo was uploaded under that responseId.
C39_OneStartRequest ==
  responseId # Null =>
    (startPosts = 1 /\ photoResponseId = responseId)
====
